---- MODULE Spec2Model ----
(***************************************************************************)
(* State-machine models of the client-side stores and helpers of the       *)
(* repository:                                                             *)
(*   - the application-context Vuex store (applicationContext.ts),         *)
(*   - the editor Vuex store (editor.ts),                                  *)
(*   - the icon registry lookup getIconByName.                             *)
(* A Vuex mutation is a function from store state to store state, so each  *)
(* mutation is an operator on a state record; an action is the composition *)
(* of the mutations it commits.  A backend reply is an input of the action *)
(* that awaits it.  JavaScript runs a handler without preemption between   *)
(* two awaits; the part of a handler that follows its last backend reply   *)
(* is one step.                                                            *)
(***************************************************************************)
EXTENDS Integers, Sequences, FiniteSets, TLC

VARIABLES
    ac,         \* the application-context store state (ApplicationContextStore)
    published,  \* the CurrentChangeSetEvents the last handler run published
    acOp,       \* the last handler run of the application-context store
    iconName,   \* the name getIconByName is called with
    iconResult, \* what the call returned
    ed,         \* the editor store state (EditorStore)
    edOp,       \* the last handler run of the editor store
    inFlight,   \* the editor actions that wait for a reply of the backend
    existsCall, \* the last call of the exists check: its input and output
    db,         \* the external_providers table and its two sequences
    dbOp        \* the last call of external_provider_create_v1

acVars == <<ac, published, acOp>>
iconVars == <<iconName, iconResult>>
edVars == <<ed, edOp, inFlight>>
dalVars == <<existsCall, db, dbOp>>
vars == <<ac, published, acOp, iconName, iconResult, ed, edOp, inFlight, existsCall, db, dbOp>>

\* JavaScript's null and undefined.
Null == "null"
Undefined == "undefined"

(***************************************************************************)
(* Bounds of the model.                                                    *)
(***************************************************************************)
MaxChangeSets == 2
MaxEditSessions == 1
MaxActivators == 2
MaxOpenList == 1

ChangeSetIds == {"cs" \o ToString(i) : i \in 1..MaxChangeSets}
EditSessionIds == {"es" \o ToString(i) : i \in 1..MaxEditSessions}
ActivatorNames == {"activator" \o ToString(i) : i \in 1..MaxActivators}
StatusBarCtxs == {"statusBar"}

\* The icon lookup is not in use.
IconIdleState == iconName = <<>> /\ iconResult = "pending"

\* Neither the exists check nor the stored procedure is in use.
NotCalled == [called |-> FALSE]
DalIdleState == existsCall = NotCalled /\ db = NotCalled /\ dbOp = NotCalled

\* An absent object (undefined where an object is expected).
UndefinedObject == [undefined |-> TRUE]

Defined(x) == x # UndefinedObject

\* state: the editor store after construction.
EdInitialState ==
    [ context                   |-> "none",
      mode                      |-> "view",
      mouseTrackSelection       |-> Undefined,
      isSaving                  |-> FALSE,
      editSaveError             |-> Undefined,
      changeSetsOpen            |-> <<>>,
      changeSet                 |-> UndefinedObject,
      changeSetParticipantCount |-> 0,
      editSession               |-> UndefinedObject,
      application               |-> UndefinedObject,
      system                    |-> UndefinedObject,
      systems                   |-> <<>>,
      nodes                     |-> <<>>,
      objects                   |-> <<>>,
      edges                     |-> <<>>,
      node                      |-> UndefinedObject,
      directSuccessors          |-> <<>>,
      newConfiguresInputTypes   |-> <<>>,
      propertyList              |-> <<>>,
      secretList                |-> UndefinedObject,
      secretName                |-> Undefined,
      editObject                |-> UndefinedObject,
      diff                      |-> [entries |-> <<>>, count |-> 0],
      eventBar                  |-> <<>>,
      resources                 |-> <<>>,
      currentResource           |-> UndefinedObject ]

\* A handler run of the editor store: its name and its payload.
EdRun(name, payload) == [name |-> name, payload |-> payload]

\* A handler run together with what the backend replied to its calls.
EdRunWith(name, payload, view) == [name |-> name, payload |-> payload, view |-> view]

\* The editor store is not in use.
EdIdleState ==
    ed = EdInitialState /\ edOp = EdRun("init", UndefinedObject) /\ inFlight = <<>>

\* A handler of the editor store that runs in one step leaves the other stores
\* and the actions in flight alone.
EdFrame == UNCHANGED <<acVars, iconVars, dalVars, inFlight>>

\* The name a change set carries (ChangeSet.name).
ChangeSetName(id) == "name-" \o id

(***************************************************************************)
(* applicationContext.ts: the store                                        *)
(***************************************************************************)
\* state(): the store after construction.
AcInitialState ==
    [ applicationId      |-> Null,
      activatedBy        |-> {},
      applicationName    |-> Null,
      systemsList        |-> <<>>,
      currentSystem      |-> Null,
      openChangeSetsList |-> <<>>,
      currentChangeSet   |-> Null,
      currentEditSession |-> Null,
      statusBarCtx       |-> Null,
      editMode           |-> FALSE ]

\* JavaScript truthiness of a nullable reference.
Truthy(x) == x # Null /\ x # Undefined

\* ---- mutations ----
setCurrentChangeSetAndEditSession(s, payload) ==
    [s EXCEPT !.currentChangeSet = payload.changeSet,
              !.currentEditSession = payload.editSession]

setCurrentChangeSet(s, payload) == [s EXCEPT !.currentChangeSet = payload]

setCurrentEditSession(s, payload) == [s EXCEPT !.currentEditSession = payload]

\* _.union(payload, state.openChangeSetsList): the entries are fresh objects,
\* compared by reference, so none of the payload is ever dropped.
updateOpenChangeSetsList(s, payload) ==
    [s EXCEPT !.openChangeSetsList = payload \o s.openChangeSetsList]

setApplicationContext(s, payload) ==
    [s EXCEPT !.applicationName = payload.applicationName,
              !.systemsList = payload.systemsList,
              !.openChangeSetsList =
                  Append(payload.openChangeSetsList, [label |-> "", value |-> ""])]

setEditModeMutation(s, payload) == [s EXCEPT !.editMode = payload]

addToActivatedBy(s, payload) ==
    [s EXCEPT !.activatedBy = s.activatedBy \cup {payload}]

removeFromActivatedBy(s, payload) ==
    [s EXCEPT !.activatedBy = s.activatedBy \ {payload}]

clearCurrentChangeSetAndCurrentEditSessionMutation(s) ==
    [s EXCEPT !.currentChangeSet = Null, !.currentEditSession = Null]

AcClear(s) ==
    [s EXCEPT !.applicationId = Null,
              !.applicationName = Null,
              !.systemsList = <<>>,
              !.currentSystem = Null,
              !.openChangeSetsList = <<>>,
              !.currentChangeSet = Null,
              !.statusBarCtx = Undefined]

setStatusBarCtxMutation(s, payload) == [s EXCEPT !.statusBarCtx = payload]

\* new CurrentChangeSetEvent(changeSet).publish(): the subscribers run
\* synchronously and see the store as it is at that moment.
Publication(s, changeSet) ==
    [ changeSet          |-> changeSet,
      currentChangeSet   |-> s.currentChangeSet,
      currentEditSession |-> s.currentEditSession ]

\* ---- replies of ApplicationContextDal ----
NoReply == [error |-> FALSE, changeSet |-> Null, editSession |-> Null]
ErrorReply == [error |-> TRUE, changeSet |-> Null, editSession |-> Null]

ChangeSetAndEditSessionReplies ==
    {ErrorReply} \cup
    [error : {FALSE}, changeSet : ChangeSetIds, editSession : EditSessionIds]

EditSessionReplies ==
    {ErrorReply} \cup
    [error : {FALSE}, changeSet : {Null}, editSession : EditSessionIds]

CancelEditSessionReplies == {ErrorReply, NoReply}

ListEntry(id) == [label |-> ChangeSetName(id), value |-> id]

ApplicationContextReplies ==
    { [error |-> TRUE, applicationName |-> Null, systemsList |-> <<>>,
       openChangeSetsList |-> <<>>] } \cup
    [ error : {FALSE},
      applicationName : {"app"},
      systemsList : {<<>>, << [label |-> "system", value |-> "system"] >>},
      openChangeSetsList : {<<>>} \cup {<<ListEntry(c)>> : c \in ChangeSetIds} ]

Op(name, arg, reply) ==
    [name |-> name, arg |-> arg, error |-> reply.error,
     changeSet |-> reply.changeSet, editSession |-> reply.editSession]

\* ---- actions ----
\* What no handler of the application-context store touches.
AcFrame == UNCHANGED <<iconVars, edVars, dalVars>>

activate(name) ==
    /\ ac' = addToActivatedBy(ac, name)
    /\ published' = <<>>
    /\ AcFrame
    /\ acOp' = Op("activate", name, NoReply)

\* A slip the deactivate claim must detect: the size is read before the removal.
DeactivateResultSizeBeforeRemoval(s, name) ==
    LET removed == removeFromActivatedBy(s, name)
    IN  IF Cardinality(s.activatedBy) = 0 THEN AcClear(removed) ELSE removed

DeactivateResult(s, name) ==
    LET removed == removeFromActivatedBy(s, name)
    IN  IF Cardinality(removed.activatedBy) = 0 THEN AcClear(removed) ELSE removed

deactivate(name) ==
    /\ ac' = DeactivateResult(ac, name)
    /\ published' = <<>>
    /\ AcFrame
    /\ acOp' = Op("deactivate", name, NoReply)

setStatusBarCtx(ctx) ==
    /\ ac' = setStatusBarCtxMutation(ac, ctx)
    /\ published' = <<>>
    /\ AcFrame
    /\ acOp' = Op("setStatusBarCtx", ctx, NoReply)

setEditMode(mode) ==
    /\ ac' = setEditModeMutation(ac, mode)
    /\ published' = <<>>
    /\ AcFrame
    /\ acOp' = Op("setEditMode", "", NoReply)

LoadApplicationContextResult(s, reply) ==
    IF ~reply.error THEN setApplicationContext(s, reply) ELSE s

loadApplicationContext(reply) ==
    /\ ac' = LoadApplicationContextResult(ac, reply)
    /\ published' = <<>>
    /\ AcFrame
    /\ acOp' = Op("loadApplicationContext", "",
                  [error |-> reply.error, changeSet |-> Null, editSession |-> Null])

\* loadChangeSetAndEditSession and createEditSessionAndLoadChangeSet have the
\* same body after the reply: commit the pair, then publish.
LoadPairResult(s, reply) ==
    IF ~reply.error
    THEN LET s1 == setCurrentChangeSetAndEditSession(s, reply)
         IN  [state |-> s1, published |-> <<Publication(s1, reply.changeSet)>>]
    ELSE [state |-> s, published |-> <<>>]

loadChangeSetAndEditSession(reply) ==
    LET r == LoadPairResult(ac, reply)
    IN  /\ ac' = r.state
        /\ published' = r.published
        /\ AcFrame
        /\ acOp' = Op("loadChangeSetAndEditSession", "", reply)

createEditSessionAndLoadChangeSet(reply) ==
    LET r == LoadPairResult(ac, reply)
    IN  /\ ac' = r.state
        /\ published' = r.published
        /\ AcFrame
        /\ acOp' = Op("createEditSessionAndLoadChangeSet", "", reply)

clearCurrentChangeSetAndCurrentEditSession ==
    LET s1 == clearCurrentChangeSetAndCurrentEditSessionMutation(ac)
    IN  /\ ac' = s1
        /\ published' = IF Truthy(s1.statusBarCtx)
                        THEN <<Publication(s1, Null)>> ELSE <<>>
        /\ AcFrame
        /\ acOp' = Op("clearCurrentChangeSetAndCurrentEditSession", "", NoReply)

CreateChangeSetAndEditSessionResult(s, reply) ==
    IF ~reply.error
    THEN LET s1 == updateOpenChangeSetsList(s, <<ListEntry(reply.changeSet)>>)
             s2 == setCurrentChangeSet(s1, reply.changeSet)
             pub == IF Truthy(s2.statusBarCtx)
                    THEN <<Publication(s2, reply.changeSet)>> ELSE <<>>
             s3 == setCurrentEditSession(s2, reply.editSession)
         IN  [state |-> s3, published |-> pub]
    ELSE [state |-> s, published |-> <<>>]

createChangeSetAndEditSession(reply) ==
    LET r == CreateChangeSetAndEditSessionResult(ac, reply)
    IN  /\ Len(r.state.openChangeSetsList) <= MaxOpenList
        /\ ac' = r.state
        /\ published' = r.published
        /\ AcFrame
        /\ acOp' = Op("createChangeSetAndEditSession", "", reply)

CreateEditSessionResult(s, reply) ==
    IF ~reply.error THEN setCurrentEditSession(s, reply.editSession) ELSE s

createEditSession(reply) ==
    /\ ac' = CreateEditSessionResult(ac, reply)
    /\ published' = <<>>
    /\ AcFrame
    /\ acOp' = Op("createEditSession", "", reply)

\* A slip the error-reply claim must detect: the reply's error is not looked at.
CancelEditSessionResultIgnoringError(s, reply) == setCurrentEditSession(s, Null)

CancelEditSessionResult(s, reply) ==
    IF ~reply.error THEN setCurrentEditSession(s, Null) ELSE s

cancelEditSession(reply) ==
    /\ ac' = CancelEditSessionResult(ac, reply)
    /\ published' = <<>>
    /\ AcFrame
    /\ acOp' = Op("cancelEditSession", "", reply)

AcInit ==
    /\ ac = AcInitialState
    /\ published = <<>>
    /\ acOp = Op("init", "", NoReply)

AcNext ==
    \/ \E n \in ActivatorNames : activate(n)
    \/ \E n \in ActivatorNames : deactivate(n)
    \/ \E c \in StatusBarCtxs : setStatusBarCtx(c)
    \/ \E m \in BOOLEAN : setEditMode(m)
    \/ \E r \in ApplicationContextReplies : loadApplicationContext(r)
    \/ \E r \in ChangeSetAndEditSessionReplies : loadChangeSetAndEditSession(r)
    \/ \E r \in ChangeSetAndEditSessionReplies : createEditSessionAndLoadChangeSet(r)
    \/ clearCurrentChangeSetAndCurrentEditSession
    \/ \E r \in ChangeSetAndEditSessionReplies : createChangeSetAndEditSession(r)
    \/ \E r \in EditSessionReplies : createEditSession(r)
    \/ \E r \in CancelEditSessionReplies : cancelEditSession(r)

\* The application-context store is not in use.
AcIdle == AcInit

SpecAcInit == AcInit /\ IconIdleState /\ EdIdleState /\ DalIdleState

SpecAc == SpecAcInit /\ [][AcNext]_vars

(***************************************************************************)
(* Properties of the application-context store                             *)
(***************************************************************************)

\* C1: in the application-context store an edit session is only ever current
\* inside a change set: currentEditSession != null implies
\* currentChangeSet != null.
C1_EditSessionInsideChangeSet ==
    ac.currentEditSession # Null => ac.currentChangeSet # Null

PairActions ==
    {"loadChangeSetAndEditSession", "createEditSessionAndLoadChangeSet",
     "createChangeSetAndEditSession"}

\* C3: whenever one of the three pair-loading actions publishes a
\* CurrentChangeSetEvent carrying the change set of a successful reply, the
\* store holds that change set and that reply's edit session at the moment of
\* publication.
C3_PairConsistentAtPublication ==
    (acOp.name \in PairActions /\ ~acOp.error) =>
        \A i \in 1..Len(published) :
            /\ published[i].changeSet = acOp.changeSet
            /\ published[i].currentChangeSet = acOp.changeSet
            /\ published[i].currentEditSession = acOp.editSession

\* The fields the clear mutation resets, as the deactivate claim lists them.
ContextFields(s) ==
    <<s.applicationId, s.applicationName, s.currentSystem, s.currentChangeSet,
      s.systemsList, s.openChangeSetsList>>

ContextCleared(s) == ContextFields(s) = <<Null, Null, Null, Null, <<>>, <<>>>>

\* C4: a deactivate clears the context (applicationId, applicationName,
\* currentSystem and currentChangeSet null, systemsList and openChangeSetsList
\* empty) when the set of activator names is empty after removing the caller's
\* name, and only then: while another activator name remains, deactivate
\* leaves all of those fields as they were.
C4_DeactivateClearsIffLast ==
    [][ acOp'.name = "deactivate" =>
          LET remaining == ac.activatedBy \ {acOp'.arg}
          IN  /\ ac'.activatedBy = remaining
              /\ IF remaining = {}
                 THEN ContextCleared(ac') /\ ac'.statusBarCtx = Undefined
                 ELSE ContextFields(ac') = ContextFields(ac)
                      /\ ac'.statusBarCtx = ac.statusBarCtx ]_vars

\* C4 witness: a deactivate has run while another activator remained, and the
\* loaded context is still there.
C4_Witness ==
    /\ acOp.name = "deactivate"
    /\ ac.activatedBy # {}
    /\ acOp.arg \notin ac.activatedBy
    /\ ac.applicationName # Null
    /\ ac.currentChangeSet # Null
    /\ Len(ac.openChangeSetsList) > 0

MaxNameLen == 3

\* The pieces the looked-up names are built from.
NamePieces == {"-", "arrow", "check", "circle", "unknown", "constructor"}

Names == UNION { [1..n -> NamePieces] : n \in 0..MaxNameLen }

ICONS ==
    (
     <<"alert", "-", "circle">> :> "AlertCircle" @@
         <<"alert", "-", "square">> :> "AlertSquare" @@
         <<"alert", "-", "triangle">> :> "AlertTriangle" @@
         <<"beaker">> :> "Beaker" @@
         <<"bell">> :> "Bell" @@
         <<"check">> :> "Check" @@
         <<"check", "-", "badge">> :> "CheckBadge" @@
         <<"check", "-", "circle">> :> "CheckCircle" @@
         <<"check", "-", "square">> :> "CheckSquare" @@
         <<"clipboard", "-", "copy">> :> "ClipboardCopy" @@
         <<"clock">> :> "Clock" @@
         <<"component">> :> "Cube" @@
         <<"credit", "-", "card">> :> "CreditCard" @@
         <<"diagram">> :> "Diagram" @@
         <<"dots", "-", "horizontal">> :> "DotsHorizontal" @@
         <<"dots", "-", "vertical">> :> "DotsVertical" @@
         <<"edit">> :> "Pencil" @@
         <<"exclamation", "-", "circle">> :> "ExclamationCircle" @@
         <<"external", "-", "link">> :> "ExternalLink" @@
         <<"eye">> :> "Eye" @@
         <<"git", "-", "branch">> :> "GitBranch" @@
         <<"git", "-", "commit">> :> "GitCommit" @@
         <<"git", "-", "merge">> :> "GitMerge" @@
         <<"help", "-", "circle">> :> "QuestionMarkCircle" @@
         <<"hide">> :> "EyeOff" @@
         <<"link">> :> "Link" @@
         <<"loader">> :> "Loader" @@
         <<"lock">> :> "Lock" @@
         <<"lock", "-", "open">> :> "LockOpen" @@
         <<"minus">> :> "Minus" @@
         <<"minus", "-", "circle">> :> "MinusCircle" @@
         <<"moon">> :> "Moon" @@
         <<"play">> :> "Play" @@
         <<"play", "-", "circle">> :> "PlayCircle" @@
         <<"plus">> :> "Plus" @@
         <<"plus", "-", "circle">> :> "PlusCircle" @@
         <<"refresh">> :> "Refresh" @@
         <<"refresh", "-", "active">> :> "Refresh" @@
         <<"save">> :> "Save" @@
         <<"search">> :> "Search" @@
         <<"selector">> :> "Selector" @@
         <<"show">> :> "Eye" @@
         <<"sun">> :> "Sun" @@
         <<"tilde">> :> "Tilde" @@
         <<"tilde", "-", "circle">> :> "TildeCircle" @@
         <<"tools">> :> "Tools" @@
         <<"trash">> :> "Trash" @@
         <<"x">> :> "X" @@
         <<"x", "-", "circle">> :> "XCircle" @@
         <<"x", "-", "square">> :> "XSquare" )

SPINNABLE_ICONS ==
    ( <<"arrow">> :> "Arrow" @@
      <<"chevron">> :> "Chevron" )

\* const ICON_NAME_ALIASES = {}: no own property.
ICON_NAME_ALIASES == [k \in {} |-> Undefined]

\* The three registries are plain object literals, so they inherit the
\* properties of Object.prototype.
ObjectPrototypeKeys ==
    { <<"constructor">>, <<"hasOwnProperty">>, <<"isPrototypeOf">>,
      <<"propertyIsEnumerable">>, <<"toLocaleString">>, <<"toString">>,
      <<"valueOf">>, <<"__proto__">>, <<"__defineGetter__">>,
      <<"__defineSetter__">>, <<"__lookupGetter__">>, <<"__lookupSetter__">> }

ObjectPrototypeMember == "Object.prototype member"

\* obj[key] of JavaScript: an own property, else an inherited one, else
\* undefined.
GetProperty(obj, key) ==
    IF key \in DOMAIN obj THEN obj[key]
    ELSE IF key \in ObjectPrototypeKeys THEN ObjectPrototypeMember
    ELSE Undefined

\* A value used as a property key is converted to a string.
ToPropertyKey(v) == IF v = Undefined THEN <<"undefined">> ELSE <<v>>

\* a || b of JavaScript, on values of which only undefined is falsy.
OrElse(a, b) == IF a # Undefined THEN a ELSE b

\* The places where "--" starts in a name.
SeparatorStarts(name) ==
    { i \in 1..(Len(name) - 1) : name[i] = "-" /\ name[i + 1] = "-" }

Min(S) == CHOOSE x \in S : \A y \in S : x <= y

\* A slip the modifier claim must detect: the name is cut at its last "--".
nameWithoutLastModifier(name) ==
    IF SeparatorStarts(name) = {} THEN name
    ELSE SubSeq(name, 1,
                (CHOOSE x \in SeparatorStarts(name) :
                    \A y \in SeparatorStarts(name) : x >= y) - 1)

\* name.split("--")[0]: the part before the first "--", the whole name when
\* there is none.
nameWithoutModifiers(name) ==
    IF SeparatorStarts(name) = {} THEN name
    ELSE SubSeq(name, 1, Min(SeparatorStarts(name)) - 1)

getIconByName(name) ==
    LET n == nameWithoutModifiers(name)
    IN  OrElse(GetProperty(SPINNABLE_ICONS, n),
        OrElse(GetProperty(ICONS, n),
        OrElse(GetProperty(ICONS, ToPropertyKey(GetProperty(ICON_NAME_ALIASES, n))),
               ICONS[<<"help", "-", "circle">>])))

\* No call has returned yet.
Pending == "pending"

IconInit ==
    /\ iconName \in Names
    /\ iconResult = Pending

\* What the icon lookup does not touch.
IconFrame == UNCHANGED <<acVars, edVars, dalVars>>

\* A caller asks for the icon of the name.
CallGetIconByName ==
    /\ iconResult = Pending
    /\ iconResult' = getIconByName(iconName)
    /\ UNCHANGED iconName
    /\ IconFrame

\* The next lookup, of another name.
NextLookup ==
    /\ iconResult # Pending
    /\ iconName' \in Names
    /\ iconResult' = Pending
    /\ IconFrame

IconNext ==
    \/ CallGetIconByName
    \/ NextLookup

SpecIconInit == IconInit /\ AcIdle /\ EdIdleState /\ DalIdleState

SpecIcon == SpecIconInit /\ [][IconNext]_vars

\* The icons the registries hold.
RegisteredIcons ==
    {ICONS[k] : k \in DOMAIN ICONS} \cup
    {SPINNABLE_ICONS[k] : k \in DOMAIN SPINNABLE_ICONS}

RegisteredKeys ==
    DOMAIN SPINNABLE_ICONS \cup DOMAIN ICONS \cup DOMAIN ICON_NAME_ALIASES

\* C10: getIconByName is total with a fallback: for every name whose part
\* before the first "--" is not a key of SPINNABLE_ICONS, ICONS or
\* ICON_NAME_ALIASES it returns ICONS["help-circle"], and for every name it
\* returns a registered icon, never undefined.
C10_FallbackToHelpCircle ==
    iconResult # Pending =>
        /\ iconResult \in RegisteredIcons
        /\ nameWithoutModifiers(iconName) \notin RegisteredKeys
             => iconResult = ICONS[<<"help", "-", "circle">>]

\* ---- lookups of registered names with modifiers ----
MaxSuffixLen == 2

\* The text after the "--" of a name.
Suffixes == UNION { [1..n -> NamePieces] : n \in 0..MaxSuffixLen }

\* k + "--" + s
WithModifier(k, s) == k \o <<"-", "-">> \o s

\* The registered names, bare and with a modifier.
ModifiedNames ==
    RegisteredKeys \cup {WithModifier(k, s) : k \in RegisteredKeys, s \in Suffixes}

ModifierInit ==
    /\ iconName \in ModifiedNames
    /\ iconResult = Pending

SpecIconModifierInit == ModifierInit /\ AcIdle /\ EdIdleState /\ DalIdleState

\* One lookup of each name.
SpecIconModifier == SpecIconModifierInit /\ [][CallGetIconByName]_vars

\* The icon registered under a key, a SPINNABLE_ICONS entry first.
RegisteredUnder(k) ==
    IF k \in DOMAIN SPINNABLE_ICONS THEN SPINNABLE_ICONS[k] ELSE ICONS[k]

\* The name is k + "--" + s for some suffix s.
IsModified(name, k) ==
    /\ Len(name) >= Len(k) + 2
    /\ SubSeq(name, 1, Len(k)) = k
    /\ name[Len(k) + 1] = "-"
    /\ name[Len(k) + 2] = "-"

\* C11: getIconByName ignores modifiers and resolves registered names exactly:
\* for every key k of ICONS or SPINNABLE_ICONS and every suffix s, the lookup
\* of k + "--" + s and the lookup of k both return the icon registered under
\* k, an entry of SPINNABLE_ICONS before one of ICONS.
C11_ModifiersIgnored ==
    iconResult # Pending =>
        \A k \in DOMAIN ICONS \cup DOMAIN SPINNABLE_ICONS :
            (iconName = k \/ IsModified(iconName, k))
                => iconResult = RegisteredUnder(k)

\* "check-circle--arrow-" was looked up and gave the icon of "check-circle".
C11_Witness ==
    /\ iconName = <<"check", "-", "circle", "-", "-", "arrow", "-">>
    /\ iconResult = ICONS[<<"check", "-", "circle">>]

(***************************************************************************)
(* editor.ts: the editor store                                             *)
(***************************************************************************)

\* ---- lodash ----
\* The value _.property("id") reads off an element, undefined off undefined.
IdOf(x) == IF x = UndefinedObject THEN Undefined ELSE x.id

\* Two elements have the same id: undefined has the id undefined.
SameId(x, y) ==
    IF x = UndefinedObject \/ y = UndefinedObject THEN x = y ELSE x.id = y.id

\* _.unionBy(a, b, "id"): the elements of a then b, in order, keeping of each
\* id the first occurrence only.
unionBy(a, b) ==
    LET c == a \o b
        n == Len(c)
        isFirst == SubSeq([i \in 1..n |-> \A j \in 1..(i - 1) : ~SameId(c[j], c[i])], 1, n)
        pos == SubSeq([i \in 1..n |-> Cardinality({j \in 1..i : isFirst[j]})], 1, n)
        m == IF n = 0 THEN 0 ELSE pos[n]
    IN  SubSeq([p \in 1..m |-> c[CHOOSE i \in 1..n : isFirst[i] /\ pos[i] = p]], 1, m)

\* _.orderBy(s, [key], ["desc"]): a stable sort, greatest key first; keys[i]
\* is the key of s[i].
orderByDesc(s, keys) ==
    LET n == Len(s)
        before(j, i) == keys[j] > keys[i] \/ (keys[j] = keys[i] /\ j < i)
        rank == SubSeq([i \in 1..n |-> Cardinality({j \in 1..n : before(j, i)}) + 1], 1, n)
    IN  SubSeq([p \in 1..n |-> s[CHOOSE i \in 1..n : rank[i] = p]], 1, n)

\* _.orderBy(s, [key], ["asc"]): a stable sort, least key first; keys[i] is
\* the key of s[i].
orderByAsc(s, keys) ==
    LET n == Len(s)
        before(j, i) == keys[j] < keys[i] \/ (keys[j] = keys[i] /\ j < i)
        rank == SubSeq([i \in 1..n |-> Cardinality({j \in 1..n : before(j, i)}) + 1], 1, n)
    IN  SubSeq([p \in 1..n |-> s[CHOOSE i \in 1..n : rank[i] = p]], 1, n)

\* _.take(s, n)
take(s, n) == IF Len(s) <= n THEN s ELSE SubSeq(s, 1, n)

\* ---- the objects the backend serves ----
MaxNodes == 2
MaxSystems == 2
MaxApplications == 1
MaxVersion == 1

NodeIds == {"n" \o ToString(i) : i \in 1..MaxNodes}
SystemIds == {"sys" \o ToString(i) : i \in 1..MaxSystems}
ApplicationIds == {"app" \o ToString(i) : i \in 1..MaxApplications}
Versions == 0..MaxVersion

\* Entity.get_head({id}): the head entity of an application; its node is the
\* application node.
ApplicationEntity(id) == [id |-> id, nodeId |-> "node-of-" \o id]

\* A node of the graph; the version tells two pushes of the same node apart.
Node(id, version) == [id |-> id, version |-> version]
Nodes == {Node(id, v) : id \in NodeIds, v \in Versions}

System(id) == [id |-> id]

ChangeSetOf(id, status) == [id |-> id, status |-> status]
ChangeSetStatuses == {"Open", "Closed"}
ChangeSets == {ChangeSetOf(id, st) : id \in ChangeSetIds, st \in ChangeSetStatuses}

EditSessionOf(id, version) == [id |-> id, version |-> version]
EditSessions == {EditSessionOf(id, v) : id \in EditSessionIds, v \in Versions}

\* node.displayObject(changeSetId): the entity shown for the node in that
\* change set, the head entity when there is none.
DisplayObject(n, changeSetId) ==
    [ id          |-> "entity-of-" \o n.id,
      nodeId      |-> n.id,
      head        |-> (changeSetId = Undefined),
      changeSetId |-> changeSetId,
      deleted     |-> FALSE ]

NodeIndex(id) == CHOOSE i \in 1..MaxNodes : id = "n" \o ToString(i)
SystemIndex(id) == CHOOSE i \in 1..MaxSystems : id = "sys" \o ToString(i)

\* Resource.getByEntityIdAndSystemId(nodeId, systemId), when there is one.
Resource(nodeId, systemId) ==
    [ id       |-> (NodeIndex(nodeId) - 1) * MaxSystems + SystemIndex(systemId),
      nodeId   |-> nodeId,
      systemId |-> systemId ]

Edge(tail, head) ==
    [ id         |-> "edge-" \o tail \o "-" \o head,
      tailVertex |-> [nodeId |-> tail],
      headVertex |-> [nodeId |-> head] ]

\* x?.id
OptionalId(x) == IF Defined(x) THEN x.id ELSE Undefined

\* _.find(s, ["id", id]) succeeds
HasId(s, id) == \E i \in 1..Len(s) : IdOf(s[i]) = id

\* ---- mutations ----
currentResourceMutation(s, payload) == [s EXCEPT !.currentResource = payload]
directSuccessorsMutation(s, payload) == [s EXCEPT !.directSuccessors = payload]
contextMutation(s, payload) == [s EXCEPT !.context = payload]
updateObjects(s, payload) ==
    [s EXCEPT !.objects =
        [k \in DOMAIN s.objects \cup {payload.nodeId} |->
            IF k = payload.nodeId THEN payload ELSE s.objects[k]]]

\* Ascending order puts undefined last, so descending order puts it first.
ResourceOrderKey(r) == IF Defined(r) THEN r.id ELSE MaxNodes * MaxSystems + 1
ResourceOrderKeys(s) ==
    SubSeq([i \in 1..Len(s) |-> ResourceOrderKey(s[i])], 1, Len(s))

updateResources(s, payload) ==
    LET merged == unionBy(<<payload>>, s.resources)
    IN  [s EXCEPT !.resources = orderByDesc(merged, ResourceOrderKeys(merged))]
setResources(s, payload) == [s EXCEPT !.resources = payload]
nodeMutation(s, payload) == [s EXCEPT !.node = payload]

\* A slip the fromNode claim must detect: the node is appended, not merged.
updateNodesAppending(s, payload) == [s EXCEPT !.nodes = <<payload>> \o s.nodes]

updateNodes(s, payload) == [s EXCEPT !.nodes = unionBy(<<payload>>, s.nodes)]
setNodes(s, payload) == [s EXCEPT !.nodes = payload]
setSecretList(s, payload) == [s EXCEPT !.secretList = payload]
setSecretName(s, payload) == [s EXCEPT !.secretName = payload]
setPropertyList(s, payload) == [s EXCEPT !.propertyList = payload]
setEditObject(s, payload) == [s EXCEPT !.editObject = payload]
setObjects(s, payload) == [s EXCEPT !.objects = payload]
applicationMutation(s, payload) == [s EXCEPT !.application = payload]
systemMutation(s, payload) == [s EXCEPT !.system = payload]
setSystems(s, payload) == [s EXCEPT !.systems = payload]
setMode(s, mode) == [s EXCEPT !.mode = mode]
setEdges(s, edges) == [s EXCEPT !.edges = edges]
\* A slip the change-set push claim must detect: the pushed change set is put
\* in front of the list without the union by id.
changeSetsOpenAddInFront(s, payload) ==
    [s EXCEPT !.changeSetsOpen = <<payload>> \o s.changeSetsOpen]
changeSetsOpenAdd(s, payload) ==
    [s EXCEPT !.changeSetsOpen = unionBy(<<payload>>, s.changeSetsOpen)]
changeSetsOpenRemove(s, payload) ==
    [s EXCEPT !.changeSetsOpen =
        SelectSeq(s.changeSetsOpen, LAMBDA c : c.id # payload.id)]
changeSetParticipantCount(s, payload) ==
    [s EXCEPT !.changeSetParticipantCount = payload]
changeSetMutation(s, payload) == [s EXCEPT !.changeSet = payload]
editSessionMutation(s, payload) == [s EXCEPT !.editSession = payload]
diffMutation(s, payload) == [s EXCEPT !.diff = payload]
newConfiguresInputTypes(s, payload) ==
    [s EXCEPT !.newConfiguresInputTypes = payload]
EdClear(s) ==
    [s EXCEPT !.context = "none",
              !.mode = "view",
              !.mouseTrackSelection = Undefined,
              !.isSaving = FALSE,
              !.editSaveError = Undefined,
              !.changeSetsOpen = <<>>,
              !.changeSet = UndefinedObject,
              !.editSession = UndefinedObject,
              !.application = UndefinedObject,
              !.system = UndefinedObject,
              !.systems = <<>>,
              !.nodes = <<>>,
              !.objects = <<>>,
              !.node = UndefinedObject,
              !.directSuccessors = <<>>,
              !.edges = <<>>,
              !.propertyList = <<>>,
              !.secretList = UndefinedObject,
              !.secretName = Undefined,
              !.editObject = UndefinedObject,
              !.changeSetParticipantCount = 0,
              !.diff = [entries |-> <<>>, count |-> 0],
              !.eventBar = <<>>,
              !.resources = <<>>,
              !.currentResource = UndefinedObject]

\* ---- what the backend replies during one handler run ----
\*   successors      appNode.successors()
\*   loadable        the nodes whose displayObject(changeSetId) loads; for the
\*                   others it throws
\*   withResource    the nodes Resource.getByEntityIdAndSystemId finds a
\*                   resource for
\*   systems         application.systems()
\*   edges           appNode.successorEdges()
\*   headSuccessors  node.successors() of an edge's head node
\*   status          the status of the change set ChangeSet.get returns
\*   participants    ChangeSetParticipant.forChangeSet(id).length
\*   version         the version of what Node.get and EditSession.get return
\* The reply in which every list is empty and nothing loads; a handler reads
\* only the fields of the calls it makes.
NotAsked ==
    [ successors |-> <<>>, loadable |-> {}, withResource |-> {}, systems |-> <<>>,
      edges |-> <<>>, headSuccessors |-> <<>>, status |-> "Open",
      participants |-> 0, version |-> 0 ]

\* _.find(resources, ["nodeId", id])
FindByNodeId(resources, id) ==
    LET hits == {i \in 1..Len(resources) :
                    Defined(resources[i]) /\ resources[i].nodeId = id}
    IN  IF hits = {} THEN UndefinedObject ELSE resources[Min(hits)]

\* What the node action loads for a node.
SecretListOf(n) == [secretsOf |-> n.id]
SecretNameOf(n) == "secret-of-" \o n.id
PropertyListOf(n) == <<"property-of-" \o n.id>>
DirectSuccessorsOf(n) == <<>>
InputTypesOf(n) == <<[value |-> "type-for-" \o n.id, label |-> "type"]>>
DiffOf(entity) == [entries |-> <<"diff-of-" \o entity.id>>, count |-> 1]

\* ---- actions, as functions of the store state and the backend's replies ----
\* A slip the setApplication claim must detect: the system is left out of the
\* context.
contextOfApplicationOnly(s) ==
    contextMutation(s,
        "application" \o (IF Defined(s.application) THEN "." \o s.application.id ELSE ""))

context(s) ==
    LET app == IF Defined(s.application) THEN "." \o s.application.id ELSE ""
        sys == IF Defined(s.system) THEN "." \o s.system.id ELSE ""
    IN  contextMutation(s, "application" \o app \o sys)

modeSwitch(s) == IF s.mode = "view" THEN setMode(s, "edit") ELSE setMode(s, "view")

\* The node action.  When the display object of the node does not load, the
\* handler throws after the node mutation and commits nothing else.
node(s, payload, view) ==
    LET s1 == nodeMutation(s, payload)
    IN  IF Defined(payload)
        THEN IF payload.id \notin view.loadable THEN s1
             ELSE LET editObject == DisplayObject(payload, OptionalId(s1.changeSet))
                      s2 == setSecretName(setSecretList(s1, SecretListOf(payload)),
                                          SecretNameOf(payload))
                      s3 == setEditObject(setPropertyList(s2, PropertyListOf(payload)),
                                          editObject)
                      s4 == newConfiguresInputTypes(
                                directSuccessorsMutation(s3, DirectSuccessorsOf(payload)),
                                InputTypesOf(payload))
                      s5 == currentResourceMutation(s4,
                                FindByNodeId(s4.resources, payload.id))
                  IN  diffMutation(s5, DiffOf(editObject))
        ELSE LET s2 == setSecretName(setSecretList(s1, UndefinedObject), Undefined)
                 s3 == setEditObject(setPropertyList(s2, <<>>), UndefinedObject)
                 s4 == newConfiguresInputTypes(directSuccessorsMutation(s3, <<>>), <<>>)
                 s5 == currentResourceMutation(s4, UndefinedObject)
             IN  diffMutation(s5, [entries |-> <<>>, count |-> 0])

setNode(s, id, view) ==
    IF id # Undefined THEN node(s, Node(id, view.version), view)
    ELSE nodeMutation(s, UndefinedObject)

loadEditObject(s, view) ==
    IF Defined(s.node) /\ s.node.id \in view.loadable
    THEN setEditObject(
             setPropertyList(
                 setSecretList(s, SecretListOf(s.node)),
                 PropertyListOf(s.node)),
             DisplayObject(s.node, OptionalId(s.changeSet)))
    ELSE s

setEditSession(s, id, view) ==
    IF id # Undefined THEN editSessionMutation(s, EditSessionOf(id, view.version))
    ELSE editSessionMutation(s, UndefinedObject)

\* The successors whose display object loads, as the loops of setChangeSet and
\* setApplication meet them.
Loaded(view) == SelectSeq(view.successors, LAMBDA n : n.id \in view.loadable)

LoadedObjects(view, changeSetId) ==
    [k \in {n.id : n \in {view.successors[i] : i \in 1..Len(view.successors)}}
             \cap view.loadable |->
        DisplayObject(Node(k, 0), changeSetId)]

LoadedResources(view, system) ==
    IF Defined(system)
    THEN LET found == SelectSeq(Loaded(view), LAMBDA n : n.id \in view.withResource)
         IN  SubSeq([i \in 1..Len(found) |-> Resource(found[i].id, system.id)],
                    1, Len(found))
    ELSE <<>>

setChangeSet(s, id, view) ==
    LET s1 == IF id # Undefined
              THEN changeSetParticipantCount(
                       changeSetMutation(s, ChangeSetOf(id, view.status)),
                       view.participants)
              ELSE changeSetParticipantCount(changeSetMutation(s, UndefinedObject), 0)
    IN  IF Defined(s1.application)
        THEN LET objects == LoadedObjects(view, id)
                 s2 == setObjects(setResources(s1, LoadedResources(view, s1.system)),
                                  objects)
             IN  IF Defined(s2.node) /\ s2.node.id \in DOMAIN objects
                 THEN node(s2, s2.node, view)
                 ELSE node(s2, UndefinedObject, view)
        ELSE s1

setApplication(s, id, view) ==
    LET application == ApplicationEntity(id)
        systems == view.systems
        first == IF Len(systems) > 0 THEN systems[1] ELSE UndefinedObject
        s1 == systemMutation(setSystems(applicationMutation(s, application), systems),
                             first)
        s2 == setNodes(setObjects(s1, LoadedObjects(view, OptionalId(s1.changeSet))),
                       view.successors)
        s3 == setResources(setEdges(s2, view.edges), LoadedResources(view, first))
    IN  context(s3)

setSystem(s, id) == context(systemMutation(s, System(id)))

\* editSessionCreate throws when there is no change set; the store is then as
\* it was.
editSessionCreate(s, id) ==
    IF ~Defined(s.changeSet) THEN s
    ELSE editSessionMutation(s, EditSessionOf(id, 0))

changeSetCreate(s, changeSetId, editSessionId) ==
    modeSwitch(editSessionCreate(changeSetMutation(s, ChangeSetOf(changeSetId, "Open")),
                                 editSessionId))

fromNode(s, payload, view) ==
    IF Defined(s.application) /\ HasId(view.successors, payload.id)
    THEN LET s1 == updateNodes(s, payload)
             s2 == IF OptionalId(s1.node) = payload.id
                   THEN nodeMutation(s1, payload) ELSE s1
         IN  IF Defined(s2.system)
             THEN updateResources(s2,
                      IF payload.id \in view.withResource
                      THEN Resource(payload.id, s2.system.id)
                      ELSE UndefinedObject)
             ELSE s2
    ELSE s

\* One node of fromEdge merged: updateNodes, the node mutation when it is the
\* selected node, updateObjects.
MergeNode(s, n, changeSetId) ==
    LET s1 == updateNodes(s, n)
        s2 == IF OptionalId(s1.node) = n.id THEN nodeMutation(s1, n) ELSE s1
    IN  updateObjects(s2, DisplayObject(n, changeSetId))

\* The loop of fromEdge over the head node's successors, from the i-th on: a
\* display object that does not load throws, which ends the handler with what
\* it has committed so far.
RECURSIVE MergeSuccessors(_, _, _, _)
MergeSuccessors(s, view, i, changeSetId) ==
    IF i > Len(view.headSuccessors) THEN [state |-> s, thrown |-> FALSE]
    ELSE IF view.headSuccessors[i].id \notin view.loadable
         THEN [state |-> s, thrown |-> TRUE]
         ELSE MergeSuccessors(MergeNode(s, view.headSuccessors[i], changeSetId),
                              view, i + 1, changeSetId)

\* The tail of the edge is the application node or one of its successors.
AttachedToApplication(s, payload, view) ==
    /\ Defined(s.application)
    /\ \/ HasId(view.successors, payload.tailVertex.nodeId)
       \/ s.application.nodeId = payload.tailVertex.nodeId

fromEdge(s, payload, view) ==
    IF AttachedToApplication(s, payload, view)
    THEN LET changeSetId == OptionalId(s.changeSet)
             head == Node(payload.headVertex.nodeId, view.version)
         IN  IF head.id \notin view.loadable THEN s
             ELSE LET r == MergeSuccessors(MergeNode(s, head, changeSetId),
                                           view, 1, changeSetId)
                  IN  IF r.thrown THEN r.state ELSE setEdges(r.state, view.edges)
    ELSE s

fromChangeSet(s, payload, view) ==
    IF payload.status = "Open" THEN changeSetsOpenAdd(s, payload)
    ELSE changeSetsOpenRemove(
             IF OptionalId(s.changeSet) = payload.id
             THEN setChangeSet(s, Undefined, view) ELSE s,
             payload)

\* A slip the edit-session push claim must detect: the pushed edit session is
\* taken whatever its id.
fromEditSessionOfAnyId(s, payload) == editSessionMutation(s, payload)

fromEditSession(s, payload) ==
    IF OptionalId(s.editSession) = payload.id /\ s.editSession # payload
    THEN editSessionMutation(s, payload)
    ELSE s

\* restore: query is router.currentRoute.query, a parameter that is absent is
\* undefined.  When the display object of the node of the query does not load,
\* the node action throws and restore ends there.
restore(s, applicationId, query, view) ==
    LET s1 == IF query.changeSetId # Undefined
              THEN setChangeSet(s, query.changeSetId, view) ELSE s
        s2 == setApplication(s1, applicationId, view)
        s3 == IF query.systemId # Undefined THEN setSystem(s2, query.systemId) ELSE s2
        s4 == IF query.nodeId # Undefined THEN setNode(s3, query.nodeId, view) ELSE s3
        s5 == IF query.editSessionId # Undefined
              THEN setEditSession(s4, query.editSessionId, view) ELSE s4
        s6 == IF query.mode # Undefined THEN setMode(s5, query.mode) ELSE s5
    IN  IF query.nodeId # Undefined /\ query.nodeId \notin view.loadable THEN s4
        ELSE loadEditObject(s6, view)

clear(s) == EdClear(s)

\* ---- the editor store driven by its handlers ----
\* The replies the backend gives.
Prefix(s, k) == SubSeq(s, 1, k)
AllNodes == SubSeq([i \in 1..MaxNodes |-> Node("n" \o ToString(i), 0)], 1, MaxNodes)
AllSystems ==
    SubSeq([i \in 1..MaxSystems |-> System("sys" \o ToString(i))], 1, MaxSystems)
AllEdges ==
    SubSeq([i \in 1..MaxNodes |->
               Edge(ApplicationEntity("app1").nodeId, AllNodes[i].id)], 1, MaxNodes)
SuccessorLists == {Prefix(AllNodes, k) : k \in 0..MaxNodes}
SystemLists == {Prefix(AllSystems, k) : k \in 0..MaxSystems}
LoadableSets == {NodeIds, NodeIds \ {"n1"}}
ResourceSets == {NodeIds, {}}
HeadSuccessorLists == {<<>>, <<Node("n1", 0)>>}
PushedEdges == {Edge(tail, head) : tail \in {"n1", ApplicationEntity("app1").nodeId},
                                   head \in NodeIds}

DispatchSetApplication(id, view) ==
    /\ ed' = setApplication(ed, id, view)
    /\ edOp' = EdRunWith("setApplication", id, view)
    /\ EdFrame

DispatchSetSystem(id) ==
    /\ ed' = setSystem(ed, id)
    /\ edOp' = EdRun("setSystem", id)
    /\ EdFrame

DispatchSetNode(id, view) ==
    /\ ed' = setNode(ed, id, view)
    /\ edOp' = EdRun("setNode", id)
    /\ EdFrame

DispatchSetChangeSet(id, view) ==
    /\ ed' = setChangeSet(ed, id, view)
    /\ edOp' = EdRun("setChangeSet", id)
    /\ EdFrame

DispatchSetEditSession(id, view) ==
    /\ ed' = setEditSession(ed, id, view)
    /\ edOp' = EdRun("setEditSession", id)
    /\ EdFrame

DispatchEditSessionCreate(id) ==
    /\ ed' = editSessionCreate(ed, id)
    /\ edOp' = EdRun("editSessionCreate", UndefinedObject)
    /\ EdFrame

DispatchChangeSetCreate(changeSetId, editSessionId) ==
    /\ ed' = changeSetCreate(ed, changeSetId, editSessionId)
    /\ edOp' = EdRun("changeSetCreate", ChangeSetName(changeSetId))
    /\ EdFrame

DispatchModeSwitch ==
    /\ ed' = modeSwitch(ed)
    /\ edOp' = EdRun("modeSwitch", UndefinedObject)
    /\ EdFrame

DispatchFromNode(payload, view) ==
    /\ ed' = fromNode(ed, payload, view)
    /\ edOp' = EdRunWith("fromNode", payload, view)
    /\ EdFrame

DispatchFromEdge(payload, view) ==
    /\ ed' = fromEdge(ed, payload, view)
    /\ edOp' = EdRunWith("fromEdge", payload, view)
    /\ EdFrame

DispatchFromChangeSet(payload, view) ==
    /\ ed' = fromChangeSet(ed, payload, view)
    /\ edOp' = EdRun("fromChangeSet", payload)
    /\ EdFrame

DispatchFromEditSession(payload) ==
    /\ ed' = fromEditSession(ed, payload)
    /\ edOp' = EdRun("fromEditSession", payload)
    /\ EdFrame

DispatchRestore(applicationId, query, view) ==
    /\ ed' = restore(ed, applicationId, query, view)
    /\ edOp' = EdRun("restore", applicationId)
    /\ EdFrame

DispatchClear ==
    /\ ed' = clear(ed)
    /\ edOp' = EdRun("clear", UndefinedObject)
    /\ EdFrame

\* ---- the graph of the open application: pushes of nodes and edges ----
OpenViews ==
    {[NotAsked EXCEPT !.successors = successors, !.loadable = NodeIds,
                      !.withResource = NodeIds, !.systems = systems] :
        successors \in SuccessorLists, systems \in {<<>>, Prefix(AllSystems, 1)}}
SelectViews == {[NotAsked EXCEPT !.loadable = loadable] : loadable \in LoadableSets}
FromNodeViews ==
    {[NotAsked EXCEPT !.successors = successors, !.withResource = withResource] :
        successors \in SuccessorLists, withResource \in ResourceSets}
FromEdgeViews ==
    {[NotAsked EXCEPT !.successors = successors, !.loadable = loadable,
                      !.headSuccessors = headSuccessors, !.edges = AllEdges] :
        successors \in {<<>>, AllNodes}, loadable \in LoadableSets,
        headSuccessors \in HeadSuccessorLists}

\* An application is opened, a node is selected, nodes are pushed.
NodePushNext ==
    \/ \E id \in ApplicationIds, view \in OpenViews : DispatchSetApplication(id, view)
    \/ \E id \in NodeIds \cup {Undefined}, view \in SelectViews :
            DispatchSetNode(id, view)
    \/ \E payload \in Nodes, view \in FromNodeViews : DispatchFromNode(payload, view)
    \/ DispatchClear

SpecNodePushInit == EdIdleState /\ AcIdle /\ IconIdleState /\ DalIdleState
SpecNodePush == SpecNodePushInit /\ [][NodePushNext]_vars

\* An application is opened, a node is selected, edges are pushed.
EdgePushNext ==
    \/ \E id \in ApplicationIds, view \in OpenViews : DispatchSetApplication(id, view)
    \/ \E id \in NodeIds \cup {Undefined}, view \in SelectViews :
            DispatchSetNode(id, view)
    \/ \E payload \in PushedEdges, view \in FromEdgeViews :
            DispatchFromEdge(payload, view)
    \/ DispatchClear

SpecEdgePushInit == EdIdleState /\ AcIdle /\ IconIdleState /\ DalIdleState
SpecEdgePush == SpecEdgePushInit /\ [][EdgePushNext]_vars

\* ---- opening an application ----
SetApplicationViews ==
    {[NotAsked EXCEPT !.successors = successors, !.loadable = loadable,
                      !.withResource = withResource, !.systems = systems,
                      !.edges = edges] :
        successors \in SuccessorLists, loadable \in LoadableSets,
        withResource \in ResourceSets, systems \in SystemLists,
        edges \in {<<>>, AllEdges}}
ChangeSetViews ==
    {[NotAsked EXCEPT !.successors = successors, !.loadable = loadable,
                      !.withResource = NodeIds, !.participants = 1] :
        successors \in {<<>>, AllNodes}, loadable \in LoadableSets}

\* A change set is chosen or left, an application is opened, a system is
\* chosen.
OpenNext ==
    \/ \E id \in ChangeSetIds \cup {Undefined}, view \in ChangeSetViews :
            DispatchSetChangeSet(id, view)
    \/ \E id \in ApplicationIds, view \in SetApplicationViews :
            DispatchSetApplication(id, view)
    \/ \E id \in SystemIds : DispatchSetSystem(id)
    \/ DispatchClear

SpecOpenInit == EdIdleState /\ AcIdle /\ IconIdleState /\ DalIdleState
SpecOpen == SpecOpenInit /\ [][OpenNext]_vars

\* ---- change sets and edit sessions ----
SessionViews ==
    {[NotAsked EXCEPT !.successors = AllNodes, !.loadable = loadable,
                      !.withResource = NodeIds, !.systems = AllSystems,
                      !.participants = 1] :
        loadable \in LoadableSets}

\* router.currentRoute.query as restore reads it: a route without parameters,
\* the route of an edit session alone, of an edit session in its change set,
\* and of a node of a system seen in a change set.
NoQuery ==
    [ changeSetId |-> Undefined, systemId |-> Undefined, nodeId |-> Undefined,
      editSessionId |-> Undefined, mode |-> Undefined ]
RouteQueries ==
    {NoQuery}
    \cup {[NoQuery EXCEPT !.editSessionId = es] : es \in EditSessionIds}
    \cup {[NoQuery EXCEPT !.changeSetId = cs, !.editSessionId = es, !.mode = "edit"] :
            cs \in ChangeSetIds, es \in EditSessionIds}
    \cup {[NoQuery EXCEPT !.changeSetId = cs, !.systemId = AllSystems[MaxSystems].id,
                          !.nodeId = "n1"] :
            cs \in ChangeSetIds}

\* The edit sessions the backend pushes: those of this client and one of
\* another client.
PushedEditSessions ==
    EditSessions \cup {EditSessionOf("es-of-another-client", v) : v \in Versions}

SessionNext ==
    \/ \E id \in ChangeSetIds \cup {Undefined}, view \in SessionViews :
            DispatchSetChangeSet(id, view)
    \/ \E id \in EditSessionIds \cup {Undefined}, view \in SessionViews :
            DispatchSetEditSession(id, view)
    \/ \E id \in EditSessionIds : DispatchEditSessionCreate(id)
    \/ \E changeSetId \in ChangeSetIds, editSessionId \in EditSessionIds :
            DispatchChangeSetCreate(changeSetId, editSessionId)
    \/ \E payload \in ChangeSets, view \in SessionViews :
            DispatchFromChangeSet(payload, view)
    \/ \E payload \in PushedEditSessions : DispatchFromEditSession(payload)
    \/ DispatchModeSwitch
    \/ \E applicationId \in ApplicationIds, query \in RouteQueries,
          view \in SessionViews :
            DispatchRestore(applicationId, query, view)
    \/ DispatchClear

SpecSessionInit == EdIdleState /\ AcIdle /\ IconIdleState /\ DalIdleState
SpecSession == SpecSessionInit /\ [][SessionNext]_vars

\* ---- properties of opening an application and of the sessions ----
EditSessionInsideChangeSet(s) == Defined(s.editSession) => Defined(s.changeSet)

\* C2: an edit session is current only inside a change set, and a fromChangeSet
\* that reports the current change set as no longer open does not leave the
\* edit session set: a fromChangeSet run that starts with the edit session
\* inside a change set ends with it inside one.
C2_FromChangeSetKeepsEditSessionInside ==
    [][(edOp'.name = "fromChangeSet" /\ EditSessionInsideChangeSet(ed))
          => EditSessionInsideChangeSet(ed')]_vars

\* What setApplication caches whatever systems the application has: the head
\* entity, the systems and the first of them, the successors, the successor
\* edges, and one object per successor whose display object loads in the
\* current change set.
GraphCached(s, id, view) ==
    LET successorIds == {view.successors[i].id : i \in 1..Len(view.successors)}
    IN  /\ s.application = ApplicationEntity(id)
        /\ s.systems = view.systems
        /\ s.system = IF Len(view.systems) > 0 THEN view.systems[1]
                      ELSE UndefinedObject
        /\ s.nodes = view.successors
        /\ s.edges = view.edges
        /\ DOMAIN s.objects = successorIds \cap view.loadable
        /\ \A k \in DOMAIN s.objects :
              /\ s.objects[k].nodeId = k
              /\ s.objects[k].changeSetId = OptionalId(s.changeSet)

\* C9: when setApplication(id) completes, application is the head entity for
\* id, systems is its systems list and system the first of them, nodes is
\* exactly the successors of the application node, edges is its successor
\* edges, objects has one entry keyed by nodeId for every successor whose
\* display object loads in the current change set and no other key, and
\* context is "application.<application id>.<system id>" when the application
\* has a system, "application.<application id>" when it has none.
C9_SetApplicationCachesGraph ==
    edOp.name = "setApplication" =>
        /\ GraphCached(ed, edOp.payload, edOp.view)
        /\ ed.context = IF Len(edOp.view.systems) > 0
                        THEN "application." \o edOp.payload \o "."
                                 \o edOp.view.systems[1].id
                        ELSE "application." \o edOp.payload

\* An application with systems was opened inside a change set, and one of its
\* successors has no display object there.
C9_Witness ==
    /\ edOp.name = "setApplication"
    /\ Defined(ed.changeSet)
    /\ Len(edOp.view.systems) > 1
    /\ Len(ed.nodes) = MaxNodes
    /\ DOMAIN ed.objects # {}
    /\ DOMAIN ed.objects # {ed.nodes[i].id : i \in 1..Len(ed.nodes)}

\* C9 as the specification words it: the context always carries the id of a
\* system.
C9_AsWorded ==
    edOp.name = "setApplication" =>
        /\ GraphCached(ed, edOp.payload, edOp.view)
        /\ Defined(ed.system)
        /\ ed.context = "application." \o edOp.payload \o "." \o ed.system.id

\* ---- properties of the pushes ----
NoDuplicateIds(s) == \A i, j \in 1..Len(s) : s[i].id = s[j].id => i = j
EntriesOtherThan(s, id) == {s[i] : i \in {j \in 1..Len(s) : s[j].id # id}}

\* What a fromNode run must have done, from the store before and after it,
\* the pushed node and the successors the backend listed.
FromNodeMerged(pre, post, payload, successors) ==
    IF ~Defined(pre.application) \/ ~(\E i \in 1..Len(successors) :
                                          successors[i].id = payload.id)
    THEN /\ post.nodes = pre.nodes
         /\ post.node = pre.node
         /\ post.resources = pre.resources
    ELSE /\ \E i \in 1..Len(post.nodes) : post.nodes[i] = payload
         /\ \A i \in 1..Len(post.nodes) :
                post.nodes[i].id = payload.id => post.nodes[i] = payload
         /\ EntriesOtherThan(post.nodes, payload.id)
                = EntriesOtherThan(pre.nodes, payload.id)
         /\ NoDuplicateIds(post.nodes)
         /\ post.node = IF Defined(pre.node) /\ pre.node.id = payload.id
                        THEN payload ELSE pre.node

\* C6: fromNode merges only the nodes of the open application.  Without an
\* application, or when the pushed node is not among the successors of the
\* application's node, nodes, node and resources stay as they were; otherwise
\* the pushed node takes the place of the entry with its id in nodes, no id
\* occurs twice, and it takes the place of the selected node when it is the
\* selected node.
C6_FromNodeMergesOwnNodes ==
    [][edOp'.name = "fromNode" =>
          FromNodeMerged(ed, ed', edOp'.payload, edOp'.view.successors)]_vars

\* A pushed newer version has replaced both the entry in nodes and the
\* selected node, next to another node that stayed.
C6_Witness ==
    /\ edOp.name = "fromNode"
    /\ edOp.payload.version = 1
    /\ ed.node = edOp.payload
    /\ Len(ed.nodes) = 2
    /\ \E i \in 1..Len(ed.nodes) : ed.nodes[i] = edOp.payload

\* What a fromEdge run must have done, from the store before and after it,
\* the pushed edge and the backend's replies.
FromEdgeMerged(pre, post, payload, view) ==
    LET attached ==
            /\ Defined(pre.application)
            /\ \/ pre.application.nodeId = payload.tailVertex.nodeId
               \/ \E i \in 1..Len(view.successors) :
                      view.successors[i].id = payload.tailVertex.nodeId
        merged == {payload.headVertex.nodeId}
                      \cup {view.headSuccessors[i].id :
                                i \in 1..Len(view.headSuccessors)}
    IN  IF ~attached
        THEN /\ post.edges = pre.edges
             /\ post.nodes = pre.nodes
             /\ post.objects = pre.objects
             /\ post.node = pre.node
        ELSE /\ \A id \in merged :
                    /\ \E i \in 1..Len(post.nodes) : post.nodes[i].id = id
                    /\ id \in DOMAIN post.objects
             /\ post.edges = view.edges

\* C7: fromEdge changes the store only for edges attached to the open
\* application.  Without an application, or when the tail of the edge is
\* neither the application node nor one of its successors, edges, nodes,
\* objects and node stay as they were; otherwise the head node of the edge
\* and each of its successors are merged into nodes and objects, and edges
\* becomes the successor edges of the application node.
C7_FromEdgeMergesThenReplacesEdges ==
    [][edOp'.name = "fromEdge" =>
          FromEdgeMerged(ed, ed', edOp'.payload, edOp'.view)]_vars

\* ---- the event bar ----
\* The number of items updateEventBar keeps.
EventBarLimit == 60

StartOf(item) == item.event.startUnixTimestamp
StartsOf(s) == SubSeq([i \in 1..Len(s) |-> StartOf(s[i])], 1, Len(s))

EventBarItem(event, logs) ==
    [id |-> event.id, event |-> event, logs |-> orderByAsc(logs, logs)]

\* A slip the event-bar claim must detect: the oldest events first.
updateEventBarAscending(s, payload) ==
    LET merged == unionBy(<<EventBarItem(payload.event, payload.logs)>>, s.eventBar)
    IN  [s EXCEPT !.eventBar = take(orderByAsc(merged, StartsOf(merged)), EventBarLimit)]

updateEventBar(s, payload) ==
    LET merged == unionBy(<<EventBarItem(payload.event, payload.logs)>>, s.eventBar)
    IN  [s EXCEPT !.eventBar = take(orderByDesc(merged, StartsOf(merged)), EventBarLimit)]

\* What no handler of the editor store touches.
\* fromEvent: the owner and the logs are loaded, then the bar is updated.
fromEvent(event, logs) ==
    /\ ed' = updateEventBar(ed, [event |-> event, logs |-> logs])
    /\ edOp' = EdRun("fromEvent", event)
    /\ EdFrame

\* Bounds of the event-bar model: the new event ids pushed, and the event bars
\* the pushes start from.
MaxNewEvents == 1

\* The ids of the pushed events: the last of a full bar, and new ones.
PushedEventIds == {EventBarLimit} \cup
                  {EventBarLimit + k : k \in 1..MaxNewEvents}
EventTimestamps == {0, 40, 100}
EventLogLists == {<<2, 1>>}
Events == [id : PushedEventIds, startUnixTimestamp : EventTimestamps]

\* A bar of n events with ids 1..n, as n pushes from the empty bar leave it:
\* all started at the same time, or each later than the one below it.
FlatBar(n) ==
    [i \in 1..n |-> EventBarItem([id |-> i, startUnixTimestamp |-> 40], <<>>)]
StairsBar(n) ==
    [i \in 1..n |->
        EventBarItem([id |-> i, startUnixTimestamp |-> 10 + (n - i)], <<>>)]

StartBars ==
    {<<>>} \cup
    {FlatBar(n) : n \in {EventBarLimit - 1, EventBarLimit}} \cup
    {StairsBar(n) : n \in {EventBarLimit - 1, EventBarLimit}}

EventInit ==
    /\ ed \in {[EdInitialState EXCEPT !.eventBar = b] : b \in StartBars}
    /\ edOp = EdRun("init", UndefinedObject)
    /\ inFlight = <<>>

EventNext ==
    \E e \in Events, logs \in EventLogLists : fromEvent(e, logs)

SpecEventInit == EventInit /\ AcIdle /\ IconIdleState /\ DalIdleState

SpecEvent == SpecEventInit /\ [][EventNext]_vars

\* ---- properties of the event bar ----
EventBarWellFormed ==
    LET bar == ed.eventBar
    IN  /\ Len(bar) <= EventBarLimit
        /\ \A i, j \in 1..Len(bar) : i < j =>
               /\ bar[i].id # bar[j].id
               /\ StartOf(bar[i]) >= StartOf(bar[j])

EventsOf(bar) == {bar[i].event : i \in 1..Len(bar)}

\* A push keeps, of the pushed event and the events the bar held under other
\* ids, those that started last.
PushKeepsGreatest ==
    edOp'.name = "fromEvent" =>
        LET e == edOp'.payload
            candidates == {e} \cup {x \in EventsOf(ed.eventBar) : x.id # e.id}
            kept == EventsOf(ed'.eventBar)
        IN  /\ kept \subseteq candidates
            /\ Len(ed'.eventBar) =
                   IF Cardinality(candidates) <= EventBarLimit
                   THEN Cardinality(candidates) ELSE EventBarLimit
            /\ \A c \in candidates \ kept : \A k \in kept :
                   c.startUnixTimestamp <= k.startUnixTimestamp
            /\ \A i \in 1..Len(ed'.eventBar) :
                   ed'.eventBar[i].id = ed'.eventBar[i].event.id

\* C8: after any sequence of fromEvent pushes the event bar holds at most 60
\* items, at most one item per event id (a re-pushed event replaces the earlier
\* item with that id), is ordered by event.startUnixTimestamp descending, and
\* consists of the items with the greatest start timestamps among those seen and
\* retained so far.
C8_EventBar == []EventBarWellFormed /\ [][PushKeepsGreatest]_vars

\* C8 witness: a push of a new event into a full bar has taken a place in the
\* bar, and an event the bar held has left it.
C8_Witness ==
    /\ edOp.name = "fromEvent"
    /\ edOp.payload.id > EventBarLimit
    /\ Len(ed.eventBar) = EventBarLimit
    /\ edOp.payload \in EventsOf(ed.eventBar)
    /\ \E i \in 1..EventBarLimit : \A x \in EventsOf(ed.eventBar) : x.id # i

(***************************************************************************)
(* U0059__external_providers.sql, lines 81-92: the exists check            *)
(***************************************************************************)

\* A JavaScript value: its type and its source text.
JsValue(t, v) == [type |-> t, text |-> v]
JsUndefined == JsValue("undefined", "undefined")
JsNull == JsValue("object", "null")
JsValues ==
    { JsUndefined, JsNull,
      JsValue("boolean", "false"), JsValue("boolean", "true"),
      JsValue("number", "0"), JsValue("number", "NaN"), JsValue("number", "1"),
      JsValue("string", ""), JsValue("string", "2021-01-01T00:00:00Z"),
      JsValue("object", "{}") }

\* The values an if statement takes for false.
Falsy ==
    { JsUndefined, JsNull, JsValue("boolean", "false"),
      JsValue("number", "0"), JsValue("number", "NaN"), JsValue("string", "") }
ToBoolean(v) == v \notin Falsy

\* input.resource is absent, null, or an object with a value.
ResourceObject(v) == [type |-> "object", value |-> v]
InputResources == {JsUndefined, JsNull} \cup {ResourceObject(v) : v \in JsValues}
Inputs == [resource : InputResources, deleted_at : JsValues]

\* input.resource?.value
ResourceValue(input) ==
    IF input.resource \in {JsUndefined, JsNull}
        THEN JsUndefined
        ELSE input.resource.value

Output(success, recommendedActions) ==
    [success |-> success, recommendedActions |-> recommendedActions]

\* The check with the test of deleted_at left out.
existsIgnoringDeletedAt(input) ==
    IF ToBoolean(ResourceValue(input))
        THEN Output(FALSE, <<"delete">>)
        ELSE Output(TRUE, <<>>)

exists(input) ==
    IF ToBoolean(ResourceValue(input)) /\ ToBoolean(input.deleted_at)
        THEN Output(FALSE, <<"delete">>)
        ELSE Output(TRUE, <<>>)

DalFrame == UNCHANGED <<acVars, iconVars, edVars>>

ExistsInit == existsCall \in {[called |-> FALSE, input |-> i] : i \in Inputs}

CallExists ==
    /\ ~existsCall.called
    /\ existsCall' = [called |-> TRUE, input |-> existsCall.input,
                      output |-> exists(existsCall.input)]
    /\ UNCHANGED <<db, dbOp>>
    /\ DalFrame

SpecExistsInit ==
    /\ ExistsInit /\ db = NotCalled /\ dbOp = NotCalled
    /\ AcIdle /\ IconIdleState /\ EdIdleState
SpecExists == SpecExistsInit /\ [][CallExists]_vars

\* What the claim calls a truthy value, written out case by case.
IsTruthy(v) ==
    \/ v.type = "boolean" /\ v.text = "true"
    \/ v.type = "number" /\ v.text \notin {"0", "NaN"}
    \/ v.type = "string" /\ v.text # ""
    \/ v.type = "object" /\ v.text # "null"

HasTruthyResourceValue(input) ==
    /\ "value" \in DOMAIN input.resource
    /\ IsTruthy(input.resource.value)

\* C12: the exists check returns {success: false, recommendedActions:
\* ["delete"]} exactly when the input has a truthy resource.value and a
\* truthy deleted_at, and {success: true, recommendedActions: []} for every
\* other input.
C12_ExistsRecommendsDelete ==
    existsCall.called =>
        IF HasTruthyResourceValue(existsCall.input) /\ IsTruthy(existsCall.input.deleted_at)
            THEN existsCall.output = [success |-> FALSE, recommendedActions |-> <<"delete">>]
            ELSE existsCall.output = [success |-> TRUE, recommendedActions |-> <<>>]

C12_Witness ==
    /\ existsCall.called
    /\ existsCall.input.resource = ResourceObject(JsValue("object", "{}"))
    /\ existsCall.input.deleted_at = JsValue("string", "2021-01-01T00:00:00Z")
    /\ existsCall.output.success = FALSE

(***************************************************************************)
(* U0059__external_providers.sql, lines 1-80: the external_providers table *)
(* and the stored procedure external_provider_create_v1                    *)
(***************************************************************************)
MaxRows == 2

\* An SQL value is NULL or holds one value.
SqlNull == <<>>
Sql(v) == <<v>>

\* A JSON value: null, true, false, a number, a string or an array.
JsonNull == <<"null">>
JsonTrue == <<"true">>
JsonFalse == <<"false">>
JsonNumber(n) == <<"number", n>>
JsonString(s) == <<"string", s>>
JsonArray(a) == <<"array", a>>

\* The SQL value a JSON value is read as.
FromJson(j) ==
    CASE j = JsonNull -> SqlNull
      [] j = JsonTrue -> Sql(TRUE)
      [] j = JsonFalse -> Sql(FALSE)
      [] OTHER -> Sql(j[2])

\* The JSON value row_to_json writes for a column of the given type.
ToJson(type, v) ==
    CASE v = SqlNull -> JsonNull
      [] type = "bool" -> IF v[1] THEN JsonTrue ELSE JsonFalse
      [] type = "bigint" -> JsonNumber(v[1])
      [] type = "bigint[]" -> JsonArray(v[1])
      [] OTHER -> JsonString(v[1])

\* The columns of external_providers and their types.
ColumnTypes ==
    [ pk |-> "bigint", id |-> "bigint",
      tenancy_universal |-> "bool",
      tenancy_billing_account_ids |-> "bigint[]",
      tenancy_organization_ids |-> "bigint[]",
      tenancy_workspace_ids |-> "bigint[]",
      visibility_change_set_pk |-> "bigint",
      visibility_edit_session_pk |-> "bigint",
      visibility_deleted_at |-> "timestamptz",
      attribute_context_prop_id |-> "bigint",
      attribute_context_schema_id |-> "bigint",
      attribute_context_schema_variant_id |-> "bigint",
      attribute_context_component_id |-> "bigint",
      attribute_context_system_id |-> "bigint",
      created_at |-> "timestamptz", updated_at |-> "timestamptz",
      prop_id |-> "bigint", schema_id |-> "bigint",
      schema_variant_id |-> "bigint",
      name |-> "text", type_definition |-> "text",
      attribute_prototype_id |-> "bigint" ]
Columns == DOMAIN ColumnTypes

row_to_json(row) == [c \in Columns |-> ToJson(ColumnTypes[c], row[c])]

\* The record of tenancy columns read from the keys of a tenancy object.
tenancy_json_to_columns_v1(this_tenancy) ==
    [ tenancy_universal |-> FromJson(this_tenancy.tenancy_universal),
      tenancy_billing_account_ids |-> FromJson(this_tenancy.tenancy_billing_account_ids),
      tenancy_organization_ids |-> FromJson(this_tenancy.tenancy_organization_ids),
      tenancy_workspace_ids |-> FromJson(this_tenancy.tenancy_workspace_ids) ]

\* The record of visibility columns read from the keys of a visibility object.
visibility_json_to_columns_v1(this_visibility) ==
    [ visibility_change_set_pk |-> FromJson(this_visibility.visibility_change_set_pk),
      visibility_edit_session_pk |-> FromJson(this_visibility.visibility_edit_session_pk),
      visibility_deleted_at |-> FromJson(this_visibility.visibility_deleted_at) ]

\* The row an INSERT builds: the listed columns from the VALUES list, pk and
\* id from their sequences, created_at and updated_at from NOW(), and NULL
\* in every column that is not listed and has no default.
NewRowWithContext(d, tenancy, visibility, args, now) ==
    [ pk |-> Sql(d.pk_seq + 1), id |-> Sql(d.id_seq + 1),
      tenancy_universal |-> tenancy.tenancy_universal,
      tenancy_billing_account_ids |-> tenancy.tenancy_billing_account_ids,
      tenancy_organization_ids |-> tenancy.tenancy_organization_ids,
      tenancy_workspace_ids |-> tenancy.tenancy_workspace_ids,
      visibility_change_set_pk |-> visibility.visibility_change_set_pk,
      visibility_edit_session_pk |-> visibility.visibility_edit_session_pk,
      visibility_deleted_at |-> visibility.visibility_deleted_at,
      attribute_context_prop_id |-> args.this_prop_id,
      attribute_context_schema_id |-> args.this_schema_id,
      attribute_context_schema_variant_id |-> args.this_schema_variant_id,
      attribute_context_component_id |-> SqlNull,
      attribute_context_system_id |-> SqlNull,
      created_at |-> Sql(now), updated_at |-> Sql(now),
      prop_id |-> args.this_prop_id,
      schema_id |-> args.this_schema_id,
      schema_variant_id |-> args.this_schema_variant_id,
      name |-> args.this_name,
      type_definition |-> args.this_type_definition,
      attribute_prototype_id |-> args.this_attribute_prototype_id ]

NewRow(d, tenancy, visibility, args, now) ==
    [ pk |-> Sql(d.pk_seq + 1), id |-> Sql(d.id_seq + 1),
      tenancy_universal |-> tenancy.tenancy_universal,
      tenancy_billing_account_ids |-> tenancy.tenancy_billing_account_ids,
      tenancy_organization_ids |-> tenancy.tenancy_organization_ids,
      tenancy_workspace_ids |-> tenancy.tenancy_workspace_ids,
      visibility_change_set_pk |-> visibility.visibility_change_set_pk,
      visibility_edit_session_pk |-> visibility.visibility_edit_session_pk,
      visibility_deleted_at |-> visibility.visibility_deleted_at,
      attribute_context_prop_id |-> SqlNull,
      attribute_context_schema_id |-> SqlNull,
      attribute_context_schema_variant_id |-> SqlNull,
      attribute_context_component_id |-> SqlNull,
      attribute_context_system_id |-> SqlNull,
      created_at |-> Sql(now), updated_at |-> Sql(now),
      prop_id |-> args.this_prop_id,
      schema_id |-> args.this_schema_id,
      schema_variant_id |-> args.this_schema_variant_id,
      name |-> args.this_name,
      type_definition |-> args.this_type_definition,
      attribute_prototype_id |-> args.this_attribute_prototype_id ]

\* INSERT INTO external_providers ... RETURNING *: the table after the
\* insert and the row that was inserted.
Insert(d, row) ==
    [ table |-> [ external_providers |-> Append(d.external_providers, row),
                  pk_seq |-> d.pk_seq + 1,
                  id_seq |-> d.id_seq + 1 ],
      returning |-> row ]

\* The procedure: the database after the call and the OUT parameter.
external_provider_create_v1(d, this_tenancy, this_visibility, args, now) ==
    LET this_tenancy_record == tenancy_json_to_columns_v1(this_tenancy)
        this_visibility_record == visibility_json_to_columns_v1(this_visibility)
        inserted == Insert(d, NewRow(d, this_tenancy_record, this_visibility_record, args, now))
        this_new_row == inserted.returning
    IN  [ db |-> inserted.table, object |-> row_to_json(this_new_row) ]

\* The tenancy and visibility objects the callers serialize.
Tenancies ==
    { [ tenancy_universal |-> JsonTrue,
        tenancy_billing_account_ids |-> JsonArray(<<>>),
        tenancy_organization_ids |-> JsonArray(<<>>),
        tenancy_workspace_ids |-> JsonArray(<<>>) ],
      [ tenancy_universal |-> JsonFalse,
        tenancy_billing_account_ids |-> JsonArray(<<11>>),
        tenancy_organization_ids |-> JsonArray(<<12, 13>>),
        tenancy_workspace_ids |-> JsonNull ] }
Visibilities ==
    { [ visibility_change_set_pk |-> JsonNumber(-1),
        visibility_edit_session_pk |-> JsonNumber(-1),
        visibility_deleted_at |-> JsonNull ],
      [ visibility_change_set_pk |-> JsonNumber(21),
        visibility_edit_session_pk |-> JsonNumber(22),
        visibility_deleted_at |-> JsonString("2022-01-01T00:00:00Z") ] }
Arguments ==
    { [ this_prop_id |-> Sql(1), this_schema_id |-> Sql(2),
        this_schema_variant_id |-> Sql(3), this_name |-> Sql("output"),
        this_type_definition |-> Sql("string"),
        this_attribute_prototype_id |-> Sql(4) ],
      [ this_prop_id |-> SqlNull, this_schema_id |-> Sql(2),
        this_schema_variant_id |-> Sql(3), this_name |-> Sql(""),
        this_type_definition |-> SqlNull,
        this_attribute_prototype_id |-> Sql(4) ],
      [ this_prop_id |-> SqlNull, this_schema_id |-> SqlNull,
        this_schema_variant_id |-> SqlNull, this_name |-> SqlNull,
        this_type_definition |-> SqlNull,
        this_attribute_prototype_id |-> SqlNull ] }
Timestamps == {"2022-02-02T00:00:00Z", "2022-03-03T00:00:00Z"}

\* The table right after the migration: no row, both sequences unused.
DbInit ==
    /\ db = [external_providers |-> <<>>, pk_seq |-> 0, id_seq |-> 0]
    /\ dbOp = NotCalled

CallExternalProviderCreate(this_tenancy, this_visibility, args, now) ==
    /\ Len(db.external_providers) < MaxRows
    /\ LET r == external_provider_create_v1(db, this_tenancy, this_visibility, args, now)
       IN  /\ db' = r.db
           /\ dbOp' = [ called |-> TRUE, before |-> db.external_providers,
                        this_tenancy |-> this_tenancy,
                        this_visibility |-> this_visibility,
                        args |-> args, object |-> r.object ]
    /\ UNCHANGED existsCall
    /\ DalFrame

DbNext ==
    \E t \in Tenancies, v \in Visibilities, a \in Arguments, now \in Timestamps :
        CallExternalProviderCreate(t, v, a, now)

SpecDbInit ==
    /\ DbInit /\ existsCall = NotCalled
    /\ AcIdle /\ IconIdleState /\ EdIdleState
SpecDb == SpecDbInit /\ [][DbNext]_vars

LastRow == db.external_providers[Len(db.external_providers)]

\* The value a key of a JSON object carries, as a column value of the
\* expected type; NULL for JSON null.
Decoded(object, key, type) ==
    LET j == object[key]
    IN  IF j = JsonNull THEN SqlNull
        ELSE IF type = "bool" THEN Sql(j = JsonTrue)
        ELSE Sql(j[2])

TenancyColumns ==
    {"tenancy_universal", "tenancy_billing_account_ids",
     "tenancy_organization_ids", "tenancy_workspace_ids"}
VisibilityColumns ==
    {"visibility_change_set_pk", "visibility_edit_session_pk", "visibility_deleted_at"}
AttributeContextColumns ==
    {"attribute_context_prop_id", "attribute_context_schema_id",
     "attribute_context_schema_variant_id", "attribute_context_component_id",
     "attribute_context_system_id"}

C14_ClearRestoresInitialState ==
    edOp.name = "clear" => ed = EdInitialState

\* ---- pushes of change sets ----
IsOpen(s, id) == \E i \in 1..Len(s.changeSetsOpen) : s.changeSetsOpen[i].id = id

\* What one fromChangeSet push does to the open list and to the current
\* change set.
FromChangeSetStep(s, payload, after) ==
    /\ IsOpen(after, payload.id) <=> payload.status = "Open"
    /\ \A id \in ChangeSetIds \ {payload.id} : IsOpen(after, id) <=> IsOpen(s, id)
    /\ IF payload.status # "Open" /\ Defined(s.changeSet) /\ s.changeSet.id = payload.id
       THEN ~Defined(after.changeSet) /\ after.changeSetParticipantCount = 0
       ELSE after.changeSet = s.changeSet

\* C15: changeSetsOpen holds at most one entry per change-set id, and each
\* fromChangeSet push leaves the pushed change set in the list exactly when its
\* status is Open and the other entries as they were, so that after any
\* sequence of pushes a change set is listed exactly when the last push for
\* its id was Open; a non-Open push that names the current change set makes
\* state.changeSet undefined and changeSetParticipantCount 0, and any other
\* push leaves state.changeSet unchanged.
C15_FromChangeSetTracksOpen ==
    /\ [](NoDuplicateIds(ed.changeSetsOpen))
    /\ [][edOp'.name = "fromChangeSet"
            => FromChangeSetStep(ed, edOp'.payload, ed')]_vars

C15_Witness ==
    /\ edOp.name = "fromChangeSet"
    /\ edOp.payload.status = "Closed"
    /\ edOp.payload.id = "cs1"
    /\ ~Defined(ed.changeSet)
    /\ Defined(ed.application)
    /\ Len(ed.changeSetsOpen) = 1
    /\ ed.changeSetsOpen[1].id = "cs2"

\* ---- pushes of edit sessions ----
\* C17: fromEditSession never switches the current edit session: it replaces
\* state.editSession only with a payload of the same id, and when no edit
\* session is current or the ids differ the state is unchanged.
C17_FromEditSessionNeverSwitches ==
    [][edOp'.name = "fromEditSession"
          => ed' = IF Defined(ed.editSession) /\ ed.editSession.id = edOp'.payload.id
                   THEN [ed EXCEPT !.editSession = edOp'.payload]
                   ELSE ed]_vars

C17_Witness ==
    /\ edOp.name = "fromEditSession"
    /\ ed.editSession = edOp.payload
    /\ ed.editSession.version = MaxVersion

\* ---- pushes of entities ----
\* A slip the entity push claim must detect: inside a change set the head flag
\* of the pushed entity is not looked at.
fromEntityOfAnyHead(s, payload, view) ==
    IF Defined(s.application) /\ HasId(view.successors, payload.nodeId)
    THEN IF Defined(s.changeSet)
         THEN IF payload.changeSetId = s.changeSet.id
              THEN updateObjects(s, payload)
              ELSE s
         ELSE IF payload.head = TRUE THEN updateObjects(s, payload) ELSE s
    ELSE s

\* fromEntity: view.successors is what appNode.successors() returns.
fromEntity(s, payload, view) ==
    IF Defined(s.application) /\ HasId(view.successors, payload.nodeId)
    THEN IF Defined(s.changeSet)
         THEN IF payload.changeSetId = s.changeSet.id /\ payload.head = FALSE
              THEN LET s1 == updateObjects(s, payload)
                   IN  IF OptionalId(s1.editObject) = payload.id
                       THEN diffMutation(s1, DiffOf(payload))
                       ELSE s1
              ELSE s
         ELSE IF payload.head = TRUE THEN updateObjects(s, payload) ELSE s
    ELSE s

DispatchFromEntity(payload, view) ==
    /\ ed' = fromEntity(ed, payload, view)
    /\ edOp' = EdRunWith("fromEntity", payload, view)
    /\ EdFrame

\* The entities the backend pushes: of a node of the application or of a node
\* of another one, head or not, saved in a change set or in none.
PushedEntityNodeIds == {"n1", "n-of-another-application"}
PushedEntities ==
    { [ id |-> "entity-of-" \o n, nodeId |-> n, head |-> head,
        changeSetId |-> changeSetId, deleted |-> deleted ] :
        n \in PushedEntityNodeIds, head \in BOOLEAN,
        changeSetId \in ChangeSetIds \cup {Undefined}, deleted \in BOOLEAN }

EntityViews ==
    {[NotAsked EXCEPT !.successors = successors, !.loadable = NodeIds] :
        successors \in {Prefix(AllNodes, 0), Prefix(AllNodes, 1)}}

\* An application is opened, a change set and a node are chosen, entities are
\* pushed.
EntityPushNext ==
    \/ \E id \in ApplicationIds, view \in EntityViews : DispatchSetApplication(id, view)
    \/ \E id \in ChangeSetIds \cup {Undefined}, view \in EntityViews :
            DispatchSetChangeSet(id, view)
    \/ \E view \in EntityViews : DispatchSetNode("n1", view)
    \/ \E payload \in PushedEntities, view \in EntityViews :
            DispatchFromEntity(payload, view)
    \/ DispatchClear

SpecEntityPushInit == EdIdleState /\ AcIdle /\ IconIdleState /\ DalIdleState
SpecEntityPush == SpecEntityPushInit /\ [][EntityPushNext]_vars

\* The pushed entity matches the view the store shows.
MatchesCurrentView(s, payload, view) ==
    /\ Defined(s.application)
    /\ \E i \in 1..Len(view.successors) : view.successors[i].id = payload.nodeId
    /\ IF Defined(s.changeSet)
       THEN payload.changeSetId = s.changeSet.id /\ payload.head = FALSE
       ELSE payload.head = TRUE

\* C16: fromEntity writes an entity into state.objects only when it matches
\* the current view: its node is a successor of the open application's node,
\* and either a change set is current and the entity has that change set's id
\* and head == false, or no change set is current and the entity has
\* head == true; in every other case state.objects and state.diff are
\* unchanged.
C16_FromEntityOnlyForCurrentView ==
    [][edOp'.name = "fromEntity"
          => IF MatchesCurrentView(ed, edOp'.payload, edOp'.view)
             THEN ed'.objects[edOp'.payload.nodeId] = edOp'.payload
             ELSE ed'.objects = ed.objects /\ ed'.diff = ed.diff]_vars

C16_Witness ==
    /\ edOp.name = "fromEntity"
    /\ Defined(ed.changeSet)
    /\ edOp.payload.changeSetId = ed.changeSet.id
    /\ edOp.payload.deleted
    /\ "n1" \in DOMAIN ed.objects
    /\ ed.objects["n1"] = edOp.payload
    /\ ed.diff = DiffOf(edOp.payload)

\* ---- pushes of resources ----
\* getters.nodeList: the nodes that have an object which is not a deleted
\* head object.
nodeList(s) ==
    SelectSeq(s.nodes,
              LAMBDA n : /\ n.id \in DOMAIN s.objects
                         /\ ~(s.objects[n.id].head /\ s.objects[n.id].deleted))

\* A slip the resource push claim must detect: the resource is merged without
\* looking at the node list.
fromResourceOfAnyNode(s, payload) ==
    LET s1 == updateResources(s, payload)
    IN  IF Defined(s1.currentResource) /\ s1.currentResource.id = payload.id
        THEN currentResourceMutation(s1, payload)
        ELSE IF /\ payload.systemId = OptionalId(s1.system)
                /\ payload.nodeId = OptionalId(s1.node)
             THEN currentResourceMutation(s1, payload)
             ELSE s1

fromResource(s, payload) ==
    LET s1 == IF HasId(nodeList(s), payload.nodeId)
              THEN updateResources(s, payload) ELSE s
    IN  IF Defined(s1.currentResource) /\ s1.currentResource.id = payload.id
        THEN currentResourceMutation(s1, payload)
        ELSE IF /\ payload.systemId = OptionalId(s1.system)
                /\ payload.nodeId = OptionalId(s1.node)
             THEN currentResourceMutation(s1, payload)
             ELSE s1

DispatchFromResource(payload) ==
    /\ ed' = fromResource(ed, payload)
    /\ edOp' = EdRun("fromResource", payload)
    /\ EdFrame

\* The resources the backend pushes: a new state of the resource of a node
\* in a system, and a resource of a node of another application.
PushedResource(id, nodeId, systemId) ==
    [id |-> id, nodeId |-> nodeId, systemId |-> systemId, state |-> "updated"]
PushedResources ==
    {PushedResource(Resource(n, sys).id, n, sys) : n \in NodeIds, sys \in SystemIds}
    \cup {PushedResource(0, "n-of-another-application", "sys1")}

\* The head entity of n1 pushed as deleted or as restored.
PushedHeadEntities ==
    { [ id |-> "entity-of-n1", nodeId |-> "n1", head |-> TRUE,
        changeSetId |-> Undefined, deleted |-> deleted ] : deleted \in BOOLEAN }

ResourceViews ==
    {[NotAsked EXCEPT !.successors = AllNodes, !.loadable = loadable,
                      !.withResource = withResource, !.systems = Prefix(AllSystems, 1)] :
        loadable \in LoadableSets, withResource \in ResourceSets}

\* An application is opened, a node is selected, its head entity is deleted
\* or restored, resources are pushed.
ResourcePushNext ==
    \/ \E id \in ApplicationIds, view \in ResourceViews : DispatchSetApplication(id, view)
    \/ \E id \in NodeIds, view \in ResourceViews : DispatchSetNode(id, view)
    \/ \E payload \in PushedHeadEntities, view \in ResourceViews :
            DispatchFromEntity(payload, view)
    \/ \E payload \in PushedResources : DispatchFromResource(payload)
    \/ DispatchClear

SpecResourcePushInit == EdIdleState /\ AcIdle /\ IconIdleState /\ DalIdleState
SpecResourcePush == SpecResourcePushInit /\ [][ResourcePushNext]_vars

InNodeList(s, nodeId) ==
    /\ \E i \in 1..Len(s.nodes) : s.nodes[i].id = nodeId
    /\ nodeId \in DOMAIN s.objects
    /\ ~(s.objects[nodeId].head /\ s.objects[nodeId].deleted)

IsCurrentResource(s, payload) ==
    \/ Defined(s.currentResource) /\ s.currentResource.id = payload.id
    \/ /\ Defined(s.system) /\ payload.systemId = s.system.id
       /\ Defined(s.node) /\ payload.nodeId = s.node.id

\* C18: fromResource merges a pushed resource into state.resources only if
\* its nodeId is the id of a node in the nodeList getter, and sets
\* state.currentResource to the pushed resource only if its id equals the
\* current resource's id or its (systemId, nodeId) equal the current system's
\* id and the selected node's id; otherwise resources and currentResource are
\* unchanged.
C18_FromResourceOnlyForShownNodes ==
    [][edOp'.name = "fromResource"
          => LET payload == edOp'.payload
             IN  /\ IF InNodeList(ed, payload.nodeId)
                    THEN /\ \E i \in 1..Len(ed'.resources) : ed'.resources[i] = payload
                         /\ NoDuplicateIds(ed'.resources)
                         /\ EntriesOtherThan(ed'.resources, payload.id)
                                = EntriesOtherThan(ed.resources, payload.id)
                    ELSE ed'.resources = ed.resources
                 /\ ed'.currentResource =
                        IF IsCurrentResource(ed, payload)
                        THEN payload ELSE ed.currentResource]_vars

C18_Witness ==
    /\ edOp.name = "fromResource"
    /\ ed.currentResource = edOp.payload
    /\ Len(ed.resources) = MaxNodes
    /\ ed.resources[MaxNodes] = edOp.payload
    /\ ed.node.id = "n1"

\* C19: after any sequence of setApplication, setChangeSet, fromNode and
\* fromResource operations every element of state.resources is a defined
\* Resource, also when the backend has no resource for a pushed node, and no
\* two elements share an id.
C19_ResourcesDefinedAndUnique ==
    /\ \A i \in 1..Len(ed.resources) : Defined(ed.resources[i])
    /\ NoDuplicateIds(ed.resources)

(***************************************************************************)
(* editor.ts: node selection with the awaits of the actions made visible   *)
(* An action runs without preemption up to its next await; the reply it    *)
(* waits for comes at any later time, so the parts of the actions in       *)
(* flight interleave.                                                      *)
(***************************************************************************)
MaxInFlight == 2

\* An action in flight: the await it waits at, the node it was dispatched
\* with, and its local editObject once loaded.
Waiting(pc, payload, editObject) ==
    [pc |-> pc, payload |-> payload, editObject |-> editObject]

Without(s, i) == SubSeq(s, 1, i - 1) \o SubSeq(s, i + 1, Len(s))
Moved(s, i, pc, editObject) ==
    [s EXCEPT ![i] = Waiting(pc, s[i].payload, editObject)]

\* node up to its first await: the node mutation; with no payload the whole
\* else branch, which has no await.
nodeUntilFirstAwait(s, payload) ==
    IF Defined(payload) THEN nodeMutation(s, payload)
    ELSE node(s, UndefinedObject, NotAsked)

\* dispatch("node", payload)
DispatchNode(payload) ==
    /\ Len(inFlight) < MaxInFlight
    /\ ed' = nodeUntilFirstAwait(ed, payload)
    /\ inFlight' = IF Defined(payload)
                   THEN Append(inFlight, Waiting("displayObject", payload, UndefinedObject))
                   ELSE inFlight
    /\ edOp' = EdRun("node", payload)
    /\ UNCHANGED <<acVars, iconVars, dalVars>>

\* dispatch("setNode", {id}): with an id the action waits for Node.get, with
\* none it commits the node mutation alone.
DispatchSetNodeInFlight(id) ==
    /\ Len(inFlight) < MaxInFlight
    /\ IF id # Undefined
       THEN /\ inFlight' = Append(inFlight, Waiting("Node.get", Node(id, 0), UndefinedObject))
            /\ ed' = ed
       ELSE /\ inFlight' = inFlight
            /\ ed' = nodeMutation(ed, UndefinedObject)
    /\ edOp' = EdRun("setNode", id)
    /\ UNCHANGED <<acVars, iconVars, dalVars>>

\* Node.get resolves: setNode dispatches node, which runs to its first await.
NodeGot(i) ==
    /\ i <= Len(inFlight)
    /\ inFlight[i].pc = "Node.get"
    /\ ed' = nodeUntilFirstAwait(ed, inFlight[i].payload)
    /\ inFlight' = Moved(inFlight, i, "displayObject", UndefinedObject)
    /\ edOp' = EdRun("Node.get", inFlight[i].payload)
    /\ UNCHANGED <<acVars, iconVars, dalVars>>

\* secretList, propertyList, displayObject and secretName have resolved: the
\* four commits that follow them.
nodeAfterDisplayObject(s, payload, editObject) ==
    LET s2 == setSecretName(setSecretList(s, SecretListOf(payload)), SecretNameOf(payload))
    IN  setEditObject(setPropertyList(s2, PropertyListOf(payload)), editObject)

\* The replies up to displayObject arrive; when displayObject rejects the
\* action ends with nothing more committed.
DisplayObjectLoaded(i, loads) ==
    /\ i <= Len(inFlight)
    /\ inFlight[i].pc = "displayObject"
    /\ LET payload == inFlight[i].payload
           editObject == DisplayObject(payload, OptionalId(ed.changeSet))
       IN  IF loads
           THEN /\ ed' = nodeAfterDisplayObject(ed, payload, editObject)
                /\ inFlight' = Moved(inFlight, i, "directSuccessors", editObject)
           ELSE /\ ed' = ed
                /\ inFlight' = Without(inFlight, i)
    /\ edOp' = EdRun("displayObject", inFlight[i].payload)
    /\ UNCHANGED <<acVars, iconVars, dalVars>>

\* payload.directSuccessors() resolves.
DirectSuccessorsLoaded(i) ==
    /\ i <= Len(inFlight)
    /\ inFlight[i].pc = "directSuccessors"
    /\ ed' = directSuccessorsMutation(ed, DirectSuccessorsOf(inFlight[i].payload))
    /\ inFlight' = Moved(inFlight, i, "inputTypes", inFlight[i].editObject)
    /\ edOp' = EdRun("directSuccessors", inFlight[i].payload)
    /\ UNCHANGED <<acVars, iconVars, dalVars>>

\* payload.inputTypes(changeSetId) resolves: the input types and the current
\* resource are committed.
nodeAfterInputTypes(s, payload) ==
    currentResourceMutation(newConfiguresInputTypes(s, InputTypesOf(payload)),
                            FindByNodeId(s.resources, payload.id))

InputTypesLoaded(i) ==
    /\ i <= Len(inFlight)
    /\ inFlight[i].pc = "inputTypes"
    /\ ed' = nodeAfterInputTypes(ed, inFlight[i].payload)
    /\ inFlight' = Moved(inFlight, i, "diff", inFlight[i].editObject)
    /\ edOp' = EdRun("inputTypes", inFlight[i].payload)
    /\ UNCHANGED <<acVars, iconVars, dalVars>>

\* editObject.diff() resolves: the last commit of the action.
DiffLoaded(i) ==
    /\ i <= Len(inFlight)
    /\ inFlight[i].pc = "diff"
    /\ ed' = diffMutation(ed, DiffOf(inFlight[i].editObject))
    /\ inFlight' = Without(inFlight, i)
    /\ edOp' = EdRun("diff", inFlight[i].payload)
    /\ UNCHANGED <<acVars, iconVars, dalVars>>

SelectNext ==
    \/ \E payload \in {Node(id, 0) : id \in NodeIds} \cup {UndefinedObject} :
            DispatchNode(payload)
    \/ \E id \in NodeIds \cup {Undefined} : DispatchSetNodeInFlight(id)
    \/ \E i \in 1..MaxInFlight : NodeGot(i)
    \/ \E i \in 1..MaxInFlight, loads \in BOOLEAN : DisplayObjectLoaded(i, loads)
    \/ \E i \in 1..MaxInFlight : DirectSuccessorsLoaded(i)
    \/ \E i \in 1..MaxInFlight : InputTypesLoaded(i)
    \/ \E i \in 1..MaxInFlight : DiffLoaded(i)

SpecSelectInit == EdIdleState /\ AcIdle /\ IconIdleState /\ DalIdleState
SpecSelect == SpecSelectInit /\ [][SelectNext]_vars

\* C20: under any interleaving of the actions that select a node, once no
\* action is in flight the detail fields describe the selected node: when
\* state.node is defined, editObject, propertyList, secretList and
\* directSuccessors are the ones loaded for it (editObject.nodeId == node.id),
\* and when state.node is undefined, editObject is undefined.
C20_DetailsDescribeSelectedNode ==
    inFlight = <<>> =>
        IF Defined(ed.node)
        THEN /\ Defined(ed.editObject)
             /\ ed.editObject.nodeId = ed.node.id
             /\ ed.propertyList = PropertyListOf(ed.node)
             /\ ed.secretList = SecretListOf(ed.node)
             /\ ed.directSuccessors = DirectSuccessorsOf(ed.node)
        ELSE ~Defined(ed.editObject)

(***************************************************************************)
(* editor.ts: the current change set with the awaits of setChangeSet made  *)
(* visible                                                                 *)
(***************************************************************************)
MaxParticipants == 1

\* setChangeSet without an id, up to its first await: both commits of the
\* else branch.
setChangeSetOfNone(s) ==
    changeSetParticipantCount(changeSetMutation(s, UndefinedObject), 0)

\* setChangeSet from `let application = state.application` on: the objects
\* and resources of the application are loaded again and node is dispatched.
setChangeSetAfterCount(s, id, view) ==
    IF Defined(s.application)
    THEN LET objects == LoadedObjects(view, id)
             s2 == setObjects(setResources(s, LoadedResources(view, s.system)), objects)
         IN  IF Defined(s2.node) /\ s2.node.id \in DOMAIN objects
             THEN node(s2, s2.node, view)
             ELSE node(s2, UndefinedObject, view)
    ELSE s

\* The action goes on to load the graph when an application is open, and has
\* ended when none is.
AwaitingGraph(s, q, id) ==
    IF Defined(s.application)
    THEN Append(q, Waiting("successors", id, UndefinedObject))
    ELSE q

\* dispatch("setChangeSet", {id})
DispatchSetChangeSetInFlight(id) ==
    /\ Len(inFlight) < MaxInFlight
    /\ IF id # Undefined
       THEN /\ ed' = ed
            /\ inFlight' = Append(inFlight,
                                  Waiting("ChangeSet.get", id, UndefinedObject))
       ELSE /\ ed' = setChangeSetOfNone(ed)
            /\ inFlight' = AwaitingGraph(ed, inFlight, Undefined)
    /\ edOp' = EdRun("setChangeSet", id)
    /\ UNCHANGED <<acVars, iconVars, dalVars>>

\* ChangeSet.get resolves: the change set is committed and its participants
\* are asked for.
ChangeSetGot(i) ==
    /\ i <= Len(inFlight)
    /\ inFlight[i].pc = "ChangeSet.get"
    /\ ed' = changeSetMutation(ed, ChangeSetOf(inFlight[i].payload, "Open"))
    /\ inFlight' = Moved(inFlight, i, "forChangeSet", UndefinedObject)
    /\ edOp' = EdRun("ChangeSet.get", inFlight[i].payload)
    /\ UNCHANGED <<acVars, iconVars, dalVars>>

\* ChangeSetParticipant.forChangeSet resolves: csp.length is committed.
ParticipantsCounted(i, length) ==
    /\ i <= Len(inFlight)
    /\ inFlight[i].pc = "forChangeSet"
    /\ ed' = changeSetParticipantCount(ed, length)
    /\ inFlight' = AwaitingGraph(ed, Without(inFlight, i), inFlight[i].payload)
    /\ edOp' = EdRun("forChangeSet", inFlight[i].payload)
    /\ UNCHANGED <<acVars, iconVars, dalVars>>

\* The successors, their objects and their resources have been read.
GraphReloaded(i, view) ==
    /\ i <= Len(inFlight)
    /\ inFlight[i].pc = "successors"
    /\ ed' = setChangeSetAfterCount(ed, inFlight[i].payload, view)
    /\ inFlight' = Without(inFlight, i)
    /\ edOp' = EdRun("successors", inFlight[i].payload)
    /\ UNCHANGED <<acVars, iconVars, dalVars>>

\* fromChangeSet runs without an await of its own; the setChangeSet it
\* dispatches runs to its first await before changeSetsOpenRemove.
fromChangeSetUntilAwait(s, payload) ==
    IF payload.status = "Open" THEN changeSetsOpenAdd(s, payload)
    ELSE changeSetsOpenRemove(
             IF OptionalId(s.changeSet) = payload.id THEN setChangeSetOfNone(s) ELSE s,
             payload)

DispatchFromChangeSetInFlight(payload) ==
    /\ Len(inFlight) < MaxInFlight
    /\ ed' = fromChangeSetUntilAwait(ed, payload)
    /\ inFlight' = IF payload.status # "Open" /\ OptionalId(ed.changeSet) = payload.id
                   THEN AwaitingGraph(ed, inFlight, Undefined)
                   ELSE inFlight
    /\ edOp' = EdRun("fromChangeSet", payload)
    /\ UNCHANGED <<acVars, iconVars, dalVars>>

RaceViews ==
    {[NotAsked EXCEPT !.successors = Prefix(AllNodes, 1), !.loadable = NodeIds]}

ChangeSetRaceNext ==
    \/ \E id \in ApplicationIds, view \in RaceViews : DispatchSetApplication(id, view)
    \/ \E id \in ChangeSetIds \cup {Undefined} : DispatchSetChangeSetInFlight(id)
    \/ \E i \in 1..MaxInFlight : ChangeSetGot(i)
    \/ \E i \in 1..MaxInFlight, length \in 0..MaxParticipants :
            ParticipantsCounted(i, length)
    \/ \E i \in 1..MaxInFlight, view \in RaceViews : GraphReloaded(i, view)
    \/ \E payload \in ChangeSets : DispatchFromChangeSetInFlight(payload)
    \/ DispatchClear

SpecChangeSetRaceInit == EdIdleState /\ AcIdle /\ IconIdleState /\ DalIdleState
SpecChangeSetRace == SpecChangeSetRaceInit /\ [][ChangeSetRaceNext]_vars

\* C21: under any interleaving of setChangeSet calls, fromChangeSet pushes
\* and clear, once no action is in flight changeSetParticipantCount is 0
\* whenever state.changeSet is undefined: a count fetched for an earlier
\* change set is never left in the store after the change set was cleared.
C21_NoCountWithoutChangeSet ==
    (inFlight = <<>> /\ ~Defined(ed.changeSet)) => ed.changeSetParticipantCount = 0

\* ---- creating a change set ----
\* C23: whenever changeSetCreate completes the editor is in edit mode
\* (state.mode == "edit"), whatever the mode was when it was dispatched.
C23_ChangeSetCreateEndsInEditMode ==
    edOp.name = "changeSetCreate" => ed.mode = "edit"

(***************************************************************************)
(* editor.ts: changeSetCreate, editSessionCreate and nodeCreate with their *)
(* calls of the backend made visible.  One action is dispatched at a time. *)
(***************************************************************************)
NoError == "none"
NoChangeSetError == "cannot start an edit session without a change set!"

\* A call of the backend: what is called, with what, and what it returns.
Call(name, arg, returned) == [call |-> name, arg |-> arg, returned |-> returned]

\* An action in flight: the call it waits for, the calls it has made, and
\* its local variables.
Running(name, pc, calls, locals) ==
    [name |-> name, pc |-> pc, calls |-> calls, locals |-> locals]

\* What a step of an action leaves for the observer: the action, where it
\* stands ("thrown" and "done" end it), the error thrown and the calls made.
Step(name, pc, error, calls) ==
    [name |-> name, pc |-> pc, error |-> error, calls |-> calls]

CreateFrame == UNCHANGED <<acVars, iconVars, dalVars>>

\* `if (!changeSet) throw` of editSessionCreate.
\* A slip the claim on the missing change set must detect: no test at all.
editSessionCreateNeverThrows(s) == FALSE

editSessionCreateThrows(s) == ~Defined(s.changeSet)

\* editSessionCreate up to `await EditSession.create(changeSet.id, ...)`:
\* the call it makes, for the change set the store holds at that moment.
EditSessionCreateCall(s, editSessionId) ==
    Call("EditSession.create", OptionalId(s.changeSet), EditSessionOf(editSessionId, 0))

\* dispatch("editSessionCreate")
DispatchEditSessionCreateInFlight(editSessionId) ==
    /\ inFlight = <<>>
    /\ ed' = ed
    /\ IF editSessionCreateThrows(ed)
       THEN /\ inFlight' = inFlight
            /\ edOp' = Step("editSessionCreate", "thrown", NoChangeSetError, <<>>)
       ELSE LET calls == <<EditSessionCreateCall(ed, editSessionId)>>
            IN  /\ inFlight' = <<Running("editSessionCreate", "EditSession.create",
                                         calls, UndefinedObject)>>
                /\ edOp' = Step("editSessionCreate", "EditSession.create", NoError, calls)
    /\ CreateFrame

\* dispatch("changeSetCreate", payload): ChangeSet.create is called.
DispatchChangeSetCreateInFlight(changeSetId) ==
    /\ inFlight = <<>>
    /\ ed' = ed
    /\ LET calls == <<Call("ChangeSet.create", ChangeSetName(changeSetId),
                           ChangeSetOf(changeSetId, "Open"))>>
       IN  /\ inFlight' = <<Running("changeSetCreate", "ChangeSet.create",
                                    calls, UndefinedObject)>>
           /\ edOp' = Step("changeSetCreate", "ChangeSet.create", NoError, calls)
    /\ CreateFrame

\* A slip the order claim must detect: the created change set is not
\* committed before editSessionCreate is dispatched.
changeSetCreateWithoutCommit(s, changeSet) == s

\* changeSetCreate after ChangeSet.create resolves: commit("changeSet").
changeSetCreateAfterCreate(s, changeSet) == changeSetMutation(s, changeSet)

\* ChangeSet.create resolves: the change set is committed and
\* editSessionCreate is dispatched, which runs to its await or throws.
ChangeSetCreated(editSessionId) ==
    /\ inFlight # <<>>
    /\ inFlight[1].name = "changeSetCreate"
    /\ inFlight[1].pc = "ChangeSet.create"
    /\ LET changeSet == inFlight[1].calls[1].returned
           s1 == changeSetCreateAfterCreate(ed, changeSet)
           calls == Append(inFlight[1].calls, EditSessionCreateCall(s1, editSessionId))
       IN  /\ ed' = s1
           /\ IF editSessionCreateThrows(s1)
              THEN /\ inFlight' = <<>>
                   /\ edOp' = Step("changeSetCreate", "thrown", NoChangeSetError,
                                   inFlight[1].calls)
              ELSE /\ inFlight' = <<Running("changeSetCreate", "EditSession.create",
                                            calls, changeSet)>>
                   /\ edOp' = Step("changeSetCreate", "EditSession.create", NoError, calls)
    /\ CreateFrame

\* EditSession.create resolves: commit("editSession").  Inside
\* changeSetCreate, modeSwitch is dispatched once the dispatch of
\* editSessionCreate has resolved.
EditSessionCreated ==
    /\ inFlight # <<>>
    /\ inFlight[1].pc = "EditSession.create"
    /\ LET calls == inFlight[1].calls
           editSession == calls[Len(calls)].returned
       IN  /\ ed' = editSessionMutation(ed, editSession)
           /\ IF inFlight[1].name = "changeSetCreate"
              THEN /\ inFlight' = <<Running("changeSetCreate", "modeSwitch",
                                            calls, inFlight[1].locals)>>
                   /\ edOp' = Step("changeSetCreate", "modeSwitch", NoError, calls)
              ELSE /\ inFlight' = <<>>
                   /\ edOp' = Step("editSessionCreate", "done", NoError, calls)
    /\ CreateFrame

\* await dispatch("modeSwitch"); return changeSet
ModeSwitched ==
    /\ inFlight # <<>>
    /\ inFlight[1].pc = "modeSwitch"
    /\ ed' = modeSwitch(ed)
    /\ inFlight' = <<>>
    /\ edOp' = Step("changeSetCreate", "done", NoError, inFlight[1].calls)
    /\ CreateFrame

\* The actions that run in one step, dispatched when nothing is in flight.
OpenApplication(id, view) == inFlight = <<>> /\ DispatchSetApplication(id, view)
ClearEditor == inFlight = <<>> /\ DispatchClear

\* ---- nodeCreate ----
InvalidEditorStateError == "invalid editor state"
DisplayObjectError == "displayObject rejected"

mouseTrackSelection(s, payload) == [s EXCEPT !.mouseTrackSelection = payload]

\* A slip the claim on the invalid editor state must detect: the system is
\* not tested.
nodeCreateThrowsIgnoringSystem(s) ==
    \/ ~Defined(s.changeSet)
    \/ ~Defined(s.editSession)
    \/ ~Defined(s.application)

\* `if (!changeSetId || !editSessionId || !system || !application) throw`
nodeCreateThrows(s) ==
    \/ ~Defined(s.changeSet)
    \/ ~Defined(s.editSession)
    \/ ~Defined(s.system)
    \/ ~Defined(s.application)

\* A slip the claim on the new node must detect: the node is always
\* configured by the application's node.
configuredByApplicationNode(s, payload) == s.application.nodeId

\* configuredByNodeId: the one of the payload, the application's node when
\* the payload has none.
configuredByNodeId(s, payload) ==
    IF payload.configuredByNodeId # Undefined
    THEN payload.configuredByNodeId
    ELSE s.application.nodeId

NodeCreatePayloads == {[configuredByNodeId |-> id] : id \in {Undefined, "n1"}}

\* dispatch("nodeCreate", payload): the test of the editor state, then
\* Node.create; id is the id the backend gives the node.
DispatchNodeCreate(payload, id) ==
    /\ inFlight = <<>>
    /\ ed' = ed
    /\ IF nodeCreateThrows(ed)
       THEN /\ inFlight' = inFlight
            /\ edOp' = Step("nodeCreate", "thrown", InvalidEditorStateError, <<>>)
       ELSE LET arg == [ payload |-> payload,
                         changeSetId |-> OptionalId(ed.changeSet),
                         editSessionId |-> OptionalId(ed.editSession),
                         systemIds |-> <<OptionalId(ed.system)>> ]
                calls == <<Call("Node.create", arg, Node(id, 0))>>
                locals == [ changeSetId |-> OptionalId(ed.changeSet),
                            configuredByNodeId |-> configuredByNodeId(ed, payload),
                            node |-> Node(id, 0) ]
            IN  /\ inFlight' = <<Running("nodeCreate", "Node.create", calls, locals)>>
                /\ edOp' = Step("nodeCreate", "Node.create", NoError, calls)
    /\ CreateFrame

\* The action in flight goes on to its next call.
Calling(pc, call) ==
    LET calls == Append(inFlight[1].calls, call)
    IN  /\ inFlight' = <<Running("nodeCreate", pc, calls, inFlight[1].locals)>>
        /\ edOp' = Step("nodeCreate", pc, NoError, calls)

\* Node.create resolves: node.configuredBy(configuredByNodeId) is called.
NodeCreated ==
    /\ inFlight # <<>>
    /\ inFlight[1].pc = "Node.create"
    /\ ed' = ed
    /\ LET locals == inFlight[1].locals
       IN  Calling("configuredBy",
                   Call("configuredBy", locals.configuredByNodeId,
                        Edge(locals.configuredByNodeId, locals.node.id)))
    /\ CreateFrame

\* node.displayObject(changeSetId) is called.
DisplayObjectCall(locals) ==
    Call("displayObject", locals.changeSetId, DisplayObject(locals.node, locals.changeSetId))

\* configuredBy resolves: with a change set in the store it is executed
\* hypothetically, else the display object is read at once.
EdgeCreated ==
    /\ inFlight # <<>>
    /\ inFlight[1].pc = "configuredBy"
    /\ ed' = ed
    /\ IF Defined(ed.changeSet)
       THEN Calling("execute",
                    Call("execute", [hypothetical |-> TRUE], ed.changeSet.id))
       ELSE Calling("displayObject", DisplayObjectCall(inFlight[1].locals))
    /\ CreateFrame

\* changeSet.execute resolves: the display object is read.
Executed ==
    /\ inFlight # <<>>
    /\ inFlight[1].pc = "execute"
    /\ ed' = ed
    /\ Calling("displayObject", DisplayObjectCall(inFlight[1].locals))
    /\ CreateFrame

\* nodeCreate from the commit of updateObjects to dispatch("node", node),
\* which runs to its first await.
nodeCreateAfterDisplayObject(s, object, n) ==
    nodeUntilFirstAwait(
        currentResourceMutation(updateNodes(updateObjects(s, object), n), UndefinedObject),
        n)

\* displayObject resolves.
DisplayObjectRead ==
    /\ inFlight # <<>>
    /\ inFlight[1].name = "nodeCreate"
    /\ inFlight[1].pc = "displayObject"
    /\ LET calls == inFlight[1].calls
           object == calls[Len(calls)].returned
       IN  /\ ed' = nodeCreateAfterDisplayObject(ed, object, inFlight[1].locals.node)
           /\ inFlight' = <<Running("nodeCreate", "node", calls, inFlight[1].locals)>>
           /\ edOp' = Step("nodeCreate", "node", NoError, calls)
    /\ CreateFrame

\* The node action dispatched by nodeCreate ends: when it has thrown,
\* nodeCreate throws; else mouseTrackSelection is committed and the node is
\* returned.
NodeSelected(view) ==
    /\ inFlight # <<>>
    /\ inFlight[1].pc = "node"
    /\ LET n == inFlight[1].locals.node
       IN  IF n.id \in view.loadable
           THEN /\ ed' = mouseTrackSelection(node(ed, n, view), n.id)
                /\ edOp' = Step("nodeCreate", "done", NoError, inFlight[1].calls)
           ELSE /\ ed' = node(ed, n, view)
                /\ edOp' = Step("nodeCreate", "thrown", DisplayObjectError,
                                inFlight[1].calls)
    /\ inFlight' = <<>>
    /\ CreateFrame

CreateViews ==
    {[NotAsked EXCEPT !.successors = Prefix(AllNodes, 1), !.loadable = loadable,
                      !.withResource = NodeIds, !.systems = systems] :
        loadable \in LoadableSets, systems \in {<<>>, Prefix(AllSystems, 1)}}

CreateNext ==
    \/ \E id \in ApplicationIds, view \in CreateViews : OpenApplication(id, view)
    \/ \E id \in EditSessionIds : DispatchEditSessionCreateInFlight(id)
    \/ \E id \in ChangeSetIds : DispatchChangeSetCreateInFlight(id)
    \/ \E id \in EditSessionIds : ChangeSetCreated(id)
    \/ EditSessionCreated
    \/ ModeSwitched
    \/ \E payload \in NodeCreatePayloads, id \in NodeIds : DispatchNodeCreate(payload, id)
    \/ NodeCreated
    \/ EdgeCreated
    \/ Executed
    \/ DisplayObjectRead
    \/ \E view \in CreateViews : NodeSelected(view)
    \/ ClearEditor

SpecCreateInit == EdIdleState /\ AcIdle /\ IconIdleState /\ DalIdleState
SpecCreate == SpecCreateInit /\ [][CreateNext]_vars

\* The change set and the edit session a changeSetCreate run has been given
\* by the backend.
CreatedChangeSet(calls) == calls[1].returned
CreatedEditSession(calls) == calls[2].returned

\* One step of changeSetCreate, by the await it reaches: the dispatch changes
\* nothing; the step that calls EditSession.create has committed the change
\* set and asks for a session of its id; the step that commits the edit
\* session leaves the mode alone; the last step switches the mode.
ChangeSetCreateStep(s, op, after) ==
    CASE op.pc = "ChangeSet.create" ->
            /\ after = s
            /\ Len(op.calls) = 1 /\ op.calls[1].call = "ChangeSet.create"
      [] op.pc = "EditSession.create" ->
            /\ after = [s EXCEPT !.changeSet = CreatedChangeSet(op.calls)]
            /\ Len(op.calls) = 2 /\ op.calls[2].call = "EditSession.create"
            /\ op.calls[2].arg = CreatedChangeSet(op.calls).id
      [] op.pc = "modeSwitch" ->
            /\ s.changeSet = CreatedChangeSet(op.calls)
            /\ after = [s EXCEPT !.editSession = CreatedEditSession(op.calls)]
      [] op.pc = "done" ->
            /\ s.changeSet = CreatedChangeSet(op.calls)
            /\ s.editSession = CreatedEditSession(op.calls)
            /\ after = [s EXCEPT !.mode = IF s.mode = "view" THEN "edit" ELSE "view"]
      [] OTHER -> FALSE

\* C22: changeSetCreate performs its steps in order: it creates the change
\* set on the backend, commits it as state.changeSet, only then creates an
\* edit session for that change set's id and commits it as state.editSession,
\* and only then switches mode; when it completes, state.changeSet is the
\* returned change set and state.editSession was created for it.
C22_ChangeSetCreateInOrder ==
    /\ [][edOp'.name = "changeSetCreate" => ChangeSetCreateStep(ed, edOp', ed')]_vars
    /\ []((edOp.name = "changeSetCreate" /\ edOp.pc = "done") =>
            /\ ed.changeSet = CreatedChangeSet(edOp.calls)
            /\ ed.editSession = CreatedEditSession(edOp.calls)
            /\ edOp.calls[2].arg = ed.changeSet.id)

C22_Witness ==
    /\ edOp.name = "changeSetCreate"
    /\ edOp.pc = "done"
    /\ ed.changeSet = ChangeSetOf("cs2", "Open")
    /\ edOp.calls[2].arg = "cs2"
    /\ Defined(ed.editSession)
    /\ Defined(ed.application)

\* C24: editSessionCreate with no current change set fails with the error
\* "cannot start an edit session without a change set!" before any call of
\* the backend is made, and leaves the store, state.editSession in
\* particular, unchanged.
C24_EditSessionCreateNeedsChangeSet ==
    [][(edOp'.name = "editSessionCreate" /\ inFlight = <<>> /\ ~Defined(ed.changeSet))
          => /\ edOp'.pc = "thrown"
             /\ edOp'.error = "cannot start an edit session without a change set!"
             /\ edOp'.calls = <<>>
             /\ inFlight' = <<>>
             /\ ed' = ed]_vars

C24_Witness ==
    /\ edOp.name = "editSessionCreate"
    /\ edOp.pc = "thrown"
    /\ ~Defined(ed.changeSet)
    /\ Defined(ed.application)

\* ---- properties of nodeCreate ----
\* C25: nodeCreate fails with an "invalid editor state" error whenever any of
\* the current change set, edit session, system or application is missing;
\* then no node and no edge is created on the backend, and state.nodes,
\* state.objects, state.node and mouseTrackSelection are unchanged.
C25_NodeCreateNeedsEditorState ==
    [][(edOp'.name = "nodeCreate" /\ inFlight = <<>>
            /\ (\/ ~Defined(ed.changeSet) \/ ~Defined(ed.editSession)
                \/ ~Defined(ed.system) \/ ~Defined(ed.application)))
          => /\ edOp'.pc = "thrown"
             /\ edOp'.error = "invalid editor state"
             /\ edOp'.calls = <<>>
             /\ inFlight' = <<>>
             /\ ed'.nodes = ed.nodes
             /\ ed'.objects = ed.objects
             /\ ed'.node = ed.node
             /\ ed'.mouseTrackSelection = ed.mouseTrackSelection]_vars

C25_Witness ==
    /\ edOp.name = "nodeCreate"
    /\ edOp.pc = "thrown"
    /\ edOp.error = "invalid editor state"
    /\ Defined(ed.changeSet)
    /\ Defined(ed.editSession)
    /\ Defined(ed.application)
    /\ ~Defined(ed.system)

\* C26: when nodeCreate succeeds, the new node is connected as configured by
\* payload.configuredByNodeId, or by the application's node when none is
\* given; the node is in state.nodes and its display object in state.objects
\* under its id, it is the selected node, and mouseTrackSelection is its id;
\* the edge is created and the change set hypothetically executed before the
\* display object is read.
C26_NodeCreateSelectsNewNode ==
    (edOp.name = "nodeCreate" /\ edOp.pc = "done") =>
        LET calls == edOp.calls
            payload == calls[1].arg.payload
            n == calls[1].returned
        IN  /\ Len(calls) = 4
            /\ calls[1].call = "Node.create"
            /\ calls[2].call = "configuredBy"
            /\ calls[2].arg = IF payload.configuredByNodeId # Undefined
                              THEN payload.configuredByNodeId
                              ELSE ed.application.nodeId
            /\ calls[3].call = "execute"
            /\ calls[3].arg.hypothetical
            /\ calls[4].call = "displayObject"
            /\ \E i \in 1..Len(ed.nodes) : ed.nodes[i] = n
            /\ n.id \in DOMAIN ed.objects
            /\ ed.objects[n.id] = calls[4].returned
            /\ ed.objects[n.id].nodeId = n.id
            /\ ed.node = n
            /\ ed.mouseTrackSelection = n.id

C26_Witness ==
    /\ edOp.name = "nodeCreate"
    /\ edOp.pc = "done"
    /\ edOp.calls[1].arg.payload.configuredByNodeId = "n1"
    /\ edOp.calls[2].arg = "n1"
    /\ ed.node.id = "n2"
    /\ ed.mouseTrackSelection = "n2"

====
